---- MODULE Spec2Model ----
(***************************************************************************)
(* The syntax-highlighting core of the prompt editor: the rule table of    *)
(* frontend/src/syntax/syntaxStyles.js, the batch "paint and consolidate"  *)
(* tokenizer generateHighlightedTokens of frontend/src/syntax/highlighter.js *)
(* and the stream tokenizer createDslStreamLanguage of frontend/src/App.js, *)
(* which the editor component drives one token at a time.                  *)
(*                                                                         *)
(* A string is a sequence of one-character strings, so that it can be      *)
(* indexed.  Positions in the model are 1-based; lastIndex and the match   *)
(* index of a regular expression keep JavaScript's 0-based values.         *)
(***************************************************************************)
EXTENDS Integers, Sequences, FiniteSets, TLC

VARIABLES
    fullText,       \* the document: the text both tokenizers are given
    isTxtFile,      \* argument of both tokenizers: template file?
    pc,             \* position in the editor's parse, then in generateHighlightedTokens
    lines,          \* fullText.split('\n')
    lineNo,         \* index in lines of the line the for loop is at
    inTripleQuote,  \* state carried from one line to the next
    inStates,       \* inTripleQuote as it was at the start of each line
    paint,          \* per-character style assignment of the current line
    lastIndex,      \* match cursor of each shared rule regex object
    outputLines,    \* token lists of the lines done so far
    raised,         \* a TypeError left the function
    prev,           \* what the call before this one returned and left behind
    stream,         \* the editor's stream over the current line: string, pos
    state,          \* the stream tokenizer's state object
    styled,         \* per line the editor has started, the tokens returned
    lineStates,     \* state.inTripleQuote as it was at the start of each line
    click,          \* the last mousedown in the editor and what its handler did
    earlier         \* what the documents opened before this one left behind

streamVars == <<stream, state, styled, lineStates>>

vars == <<fullText, isTxtFile, pc, lines, lineNo, inTripleQuote, inStates,
          paint, lastIndex, outputLines, raised, prev, streamVars, click,
          earlier>>

----------------------------------------------------------------------------
(* Characters and the character classes the rule regexes use.              *)

UpperSeq == <<"A","B","C","D","E","F","G","H","I","J","K","L","M",
              "N","O","P","Q","R","S","T","U","V","W","X","Y","Z">>
LowerSeq == <<"a","b","c","d","e","f","g","h","i","j","k","l","m",
              "n","o","p","q","r","s","t","u","v","w","x","y","z">>
UpperChars == {UpperSeq[i] : i \in DOMAIN UpperSeq}
LowerChars == {LowerSeq[i] : i \in DOMAIN LowerSeq}
DigitChars == {"0","1","2","3","4","5","6","7","8","9"}

\* \w, and [A-Z0-9_] under the i flag
WordChars == UpperChars \cup LowerChars \cup DigitChars \cup {"_"}
\* [A-Z0-9_] without the i flag
UpperWordChars == UpperChars \cup DigitChars \cup {"_"}
\* [a-zA-Z_]
TagStartChars == UpperChars \cup LowerChars \cup {"_"}
\* \s
SpaceChars == {" ", "\t", "\r", "\n", "\f"}
\* the characters . does not match
LineTerminators == {"\n", "\r"}
QuoteChars == {"\"", "'"}

\* the canonicalization of the i flag on ASCII: toUpperCase
ToUpper(c) ==
    IF c \in LowerChars
    THEN UpperSeq[CHOOSE i \in DOMAIN LowerSeq : LowerSeq[i] = c]
    ELSE c

Min(S) == CHOOSE x \in S : \A y \in S : x <= y

\* s[i], or the empty string outside the string
CharAt(s, i) == IF i \in 1..Len(s) THEN s[i] ELSE ""

\* \b between s[i-1] and s[i]
WordBoundary(s, i) == (CharAt(s, i - 1) \in WordChars) # (CharAt(s, i) \in WordChars)

\* lit occurs in s at i
LitAt(s, i, lit) == \A k \in 1..Len(lit) : CharAt(s, i + k - 1) = lit[k]

\* lit occurs in s at i, ignoring case
LitAtCI(s, i, lit) ==
    \A k \in 1..Len(lit) : ToUpper(CharAt(s, i + k - 1)) = ToUpper(lit[k])

\* the position after the longest run of characters of S that starts at i
RunEnd(s, i, S) ==
    LET stops == {j \in i..Len(s) : s[j] \notin S}
    IN  IF stops = {} THEN Len(s) + 1 ELSE Min(stops)

\* the position after the longest run of characters outside S that starts at i
RunEndNot(s, i, S) ==
    LET stops == {j \in i..Len(s) : s[j] \in S}
    IN  IF stops = {} THEN Len(s) + 1 ELSE Min(stops)

\* s.indexOf(lit, from), 0-based, -1 when there is none
IndexOf(s, lit, from) ==
    LET at == {i \in from..Len(s) : LitAt(s, i + 1, lit)}
    IN  IF at = {} THEN -1 ELSE Min(at)

----------------------------------------------------------------------------
(* The regexes of highlightingRules.  Each matcher gives the length of the *)
(* match of its regex that starts at position i of s, 0 when there is      *)
(* none; no regex of the table matches the empty string.                   *)

\* /\/\/[^\n]*/
MatchComment(s, i) ==
    IF LitAt(s, i, <<"/", "/">>) THEN RunEndNot(s, i + 2, {"\n"}) - i ELSE 0

\* /(".*?"|'.*?')/
MatchString(s, i) ==
    LET q == CharAt(s, i)
        close == {j \in i + 1..Len(s) : s[j] = q}
    IN  IF q \notin QuoteChars \/ close = {} THEN 0
        ELSE IF \E k \in i + 1..Min(close) - 1 : s[k] \in LineTerminators THEN 0
        ELSE Min(close) - i + 1

DSL_KEYWORDS ==
    << <<"I","F">>, <<"T","H","E","N">>, <<"E","L","S","E","I","F">>,
       <<"E","L","S","E">>, <<"E","N","D","I","F">>, <<"S","E","T">>,
       <<"R","E","T","U","R","N">>, <<"L","O","A","D">>, <<"L","O","G">>,
       <<"A","N","D">>, <<"O","R">>, <<"T","R","U","E">>,
       <<"F","A","L","S","E">>, <<"N","O","N","E">> >>

\* /\b(w1|w2|...)\b/i for the words kws: the alternatives are tried in order
MatchWords(kws, s, i) ==
    LET ok == {k \in DOMAIN kws :
                  /\ LitAtCI(s, i, kws[k])
                  /\ WordBoundary(s, i + Len(kws[k]))}
    IN  IF WordBoundary(s, i) /\ ok # {} THEN Len(kws[Min(ok)]) ELSE 0

\* /\b(IF|THEN|ELSEIF|ELSE|ENDIF|SET|RETURN|LOAD|LOG|AND|OR|TRUE|FALSE|NONE)\b/i
MatchKeyword(s, i) == MatchWords(DSL_KEYWORDS, s, i)

\* /<[/!]?[a-zA-Z_][^>]*>/
MatchSpecialTag(s, i) ==
    LET j == IF CharAt(s, i + 1) \in {"/", "!"} THEN i + 2 ELSE i + 1
        e == RunEndNot(s, j + 1, {">"})
    IN  IF CharAt(s, i) = "<" /\ CharAt(s, j) \in TagStartChars /\ e <= Len(s)
        THEN e - i + 1 ELSE 0

\* /\b\d+(\.\d+)?\b/
MatchNumber(s, i) ==
    LET e1 == RunEnd(s, i, DigitChars)
        e2 == RunEnd(s, e1 + 1, DigitChars)
    IN  IF ~(WordBoundary(s, i) /\ e1 > i) THEN 0
        ELSE IF CharAt(s, e1) = "." /\ e2 > e1 + 1 /\ WordBoundary(s, e2)
             THEN e2 - i
        ELSE IF WordBoundary(s, e1) THEN e1 - i
        ELSE 0

EXT_SCRIPT == <<".", "s", "c", "r", "i", "p", "t">>
EXT_TXT == <<".", "t", "x", "t">>

\* in /(\[<)([^\]>]+?\.(?:script|txt))(>\])/ the length of group 2 of the
\* match that starts at i, 0 when there is none: the lazy +? takes the
\* fewest characters that let the rest match
LinkPathLen(s, i) ==
    LET ok == {n \in 1..Len(s) :
                  /\ RunEndNot(s, i + 2, {"]", ">"}) >= i + 2 + n
                  /\ \E ext \in {EXT_SCRIPT, EXT_TXT} :
                        /\ LitAt(s, i + 2 + n, ext)
                        /\ LitAt(s, i + 2 + n + Len(ext), <<">", "]">>)}
        n == Min(ok)
    IN  IF ~LitAt(s, i, <<"[", "<">>) \/ ok = {} THEN 0
        ELSE IF LitAt(s, i + 2 + n, EXT_SCRIPT) THEN n + Len(EXT_SCRIPT)
        ELSE n + Len(EXT_TXT)

\* /(\[<)([^\]>]+?\.(?:script|txt))(>\])/
MatchPlaceholderLink(s, i) ==
    IF LinkPathLen(s, i) = 0 THEN 0 ELSE LinkPathLen(s, i) + 4

\* /\bLOAD\s+[A-Z0-9_]+\s+FROM\s+['"][^'"]+['"]/i
MatchLoadTagFrom(s, i) ==
    LET a == i + 4
        b == RunEnd(s, a, SpaceChars)
        c == RunEnd(s, b, WordChars)
        d == RunEnd(s, c, SpaceChars)
        e == d + 4
        f == RunEnd(s, e, SpaceChars)
        g == RunEndNot(s, f + 1, QuoteChars)
    IN  IF /\ WordBoundary(s, i)
           /\ LitAtCI(s, i, <<"L","O","A","D">>)
           /\ b > a /\ c > b /\ d > c
           /\ LitAtCI(s, d, <<"F","R","O","M">>)
           /\ f > e
           /\ CharAt(s, f) \in QuoteChars
           /\ g > f + 1
           /\ CharAt(s, g) \in QuoteChars
        THEN g - i + 1 ELSE 0

\* /\[(?:#|\/)\s*[A-Z0-9_]+\s*]/i
MatchSectionMarker(s, i) ==
    LET b == RunEnd(s, i + 2, SpaceChars)
        c == RunEnd(s, b, WordChars)
        d == RunEnd(s, c, SpaceChars)
    IN  IF /\ CharAt(s, i) = "["
           /\ CharAt(s, i + 1) \in {"#", "/"}
           /\ c > b
           /\ CharAt(s, d) = "]"
        THEN d - i + 1 ELSE 0

\* /\{\{[...]+\}\}/ for the character class S
MatchBraces(S, s, i) ==
    LET c == RunEnd(s, i + 2, S)
    IN  IF /\ LitAt(s, i, <<"{", "{">>)
           /\ c > i + 2
           /\ LitAt(s, c, <<"}", "}">>)
        THEN c - i + 2 ELSE 0

\* /\{\{[A-Z0-9_]+\}\}/
MatchInsertTag(s, i) == MatchBraces(UpperWordChars, s, i)

----------------------------------------------------------------------------
(* The style registry and the rule table of syntaxStyles.js.               *)

\* editorThemes.dark, style key -> className
currentTheme ==
    [k \in {"Default", "Keyword", "PlaceholderLink", "Comment", "String",
            "Number", "SpecialTag", "LoadCommand", "SectionMarker", "Insert",
            "TripleQuoteString"} |->
        CASE k = "Default" -> "sh-default"
          [] k = "Keyword" -> "sh-keyword"
          [] k = "PlaceholderLink" -> "sh-placeholder-link"
          [] k = "Comment" -> "sh-comment"
          [] k = "String" -> "sh-string"
          [] k = "Number" -> "sh-number"
          [] k = "SpecialTag" -> "sh-specialtag"
          [] k = "LoadCommand" -> "sh-loadcommand"
          [] k = "SectionMarker" -> "sh-sectionmarker"
          [] k = "Insert" -> "sh-insert"
          [] k = "TripleQuoteString" -> "sh-triplestring"]

Rule(id, styleKey, isLink, linkGroup, isDslKeywordRule) ==
    [id |-> id, styleKey |-> styleKey, isLink |-> isLink, linkGroup |-> linkGroup,
     isDslKeywordRule |-> isDslKeywordRule, global |-> TRUE]

\* highlightingRules with a style key the theme does not have
highlightingRulesBadKey ==
    << Rule("comment", "Comment", FALSE, 0, FALSE),
       Rule("single_double_quote_string", "Str", FALSE, 0, FALSE),
       Rule("dsl_keywords", "Keyword", FALSE, 0, TRUE),
       Rule("special_tag", "SpecialTag", FALSE, 0, FALSE),
       Rule("number", "Number", FALSE, 0, FALSE),
       Rule("placeholder_link", "PlaceholderLink", TRUE, 2, FALSE),
       Rule("load_tag_from", "LoadCommand", FALSE, 0, TRUE),
       Rule("section_marker", "SectionMarker", FALSE, 0, FALSE),
       Rule("insert_tag", "Insert", FALSE, 0, FALSE) >>

\* a rule without linkGroup or isDslKeywordRule has them undefined, which the
\* code only tests for truth: 0 and FALSE here
highlightingRules ==
    << Rule("comment", "Comment", FALSE, 0, FALSE),
       Rule("single_double_quote_string", "String", FALSE, 0, FALSE),
       Rule("dsl_keywords", "Keyword", FALSE, 0, TRUE),
       Rule("special_tag", "SpecialTag", FALSE, 0, FALSE),
       Rule("number", "Number", FALSE, 0, FALSE),
       Rule("placeholder_link", "PlaceholderLink", TRUE, 2, FALSE),
       Rule("load_tag_from", "LoadCommand", FALSE, 0, TRUE),
       Rule("section_marker", "SectionMarker", FALSE, 0, FALSE),
       Rule("insert_tag", "Insert", FALSE, 0, FALSE) >>

RuleIds == {highlightingRules[r].id : r \in DOMAIN highlightingRules}

TRIPLE_QUOTE_MARKER == <<"\"", "\"", "\"">>
TRIPLE_QUOTE_STYLE_KEY == "TripleQuoteString"

\* the length of the match of rule.regex that starts at position i of s
MatchLen(rule, s, i) ==
    CASE rule.id = "comment" -> MatchComment(s, i)
      [] rule.id = "single_double_quote_string" -> MatchString(s, i)
      [] rule.id = "dsl_keywords" -> MatchKeyword(s, i)
      [] rule.id = "special_tag" -> MatchSpecialTag(s, i)
      [] rule.id = "number" -> MatchNumber(s, i)
      [] rule.id = "placeholder_link" -> MatchPlaceholderLink(s, i)
      [] rule.id = "load_tag_from" -> MatchLoadTagFrom(s, i)
      [] rule.id = "section_marker" -> MatchSectionMarker(s, i)
      [] rule.id = "insert_tag" -> MatchInsertTag(s, i)

\* match[g] of a match of rule.regex at position i: the capture groups the
\* code reads are those of the placeholder rule; <<>> is an unset group
MatchGroup(rule, s, i, g) ==
    IF rule.id = "placeholder_link" /\ g = 2
    THEN SubSeq(s, i + 2, i + 1 + LinkPathLen(s, i))
    ELSE <<>>

\* the positions after position from at which rule.regex matches
MatchesOf(rule, s, from) == {i \in from + 1..Len(s) : MatchLen(rule, s, i) > 0}

\* ExecResult of a regex whose failed exec leaves lastIndex where it was
ExecResultNoReset(rule, li, i, len) ==
    IF i = 0
    THEN [found |-> FALSE, index |-> 0, length |-> 0, lastIndex |-> li]
    ELSE [found |-> TRUE, index |-> i - 1, length |-> len,
          lastIndex |-> IF rule.global THEN i - 1 + len ELSE li]

\* the result of rule.regex.exec(s), entered with lastIndex li, when the
\* leftmost match is at position i with length len (i = 0: no match): a
\* global regex is left with lastIndex after the match, or 0 without one
ExecResult(rule, li, i, len) ==
    IF i = 0
    THEN [found |-> FALSE, index |-> 0, length |-> 0,
          lastIndex |-> IF rule.global THEN 0 ELSE li]
    ELSE [found |-> TRUE, index |-> i - 1, length |-> len,
          lastIndex |-> IF rule.global THEN i - 1 + len ELSE li]

FirstOf(S) == IF S = {} THEN 0 ELSE Min(S)

ExecFrom(rule, s, li, i) ==
    ExecResult(rule, li, i, IF i = 0 THEN 0 ELSE MatchLen(rule, s, i))

\* rule.regex.exec(s) with the regex's lastIndex at li: the leftmost match
\* at or after li (after 0 for a regex that is not global)
RegexExec(rule, s, li) ==
    ExecFrom(rule, s, li, FirstOf(MatchesOf(rule, s, IF rule.global THEN li ELSE 0)))

\* an undefined linkData is <<>>, a defined one is <<path>>
Undefined == <<>>
Defined(v) == <<v>>

DefaultPaint == [styleKey |-> "Default", isLink |-> FALSE, linkData |-> Undefined]

\* LinkData taking the whole match match[0] for the capture group
LinkDataWholeMatch(rule, s, m, group) ==
    IF rule.isLink THEN Defined(SubSeq(s, m.index + 1, m.index + m.length))
    ELSE Undefined

\* linkData of line 269, group being match[rule.linkGroup]
LinkData(rule, s, m, group) ==
    IF rule.isLink /\ rule.linkGroup # 0 /\ group # <<>> THEN Defined(group)
    ELSE IF rule.isLink THEN Defined(SubSeq(s, m.index + 1, m.index + m.length))
    ELSE Undefined

\* RulePaint writing the matched text as linkData for every rule
RulePaintAlwaysData(rule, s, m) ==
    [styleKey |-> rule.styleKey,
     isLink |-> rule.isLink,
     linkData |-> Defined(SubSeq(s, m.index + 1, m.index + m.length))]

\* the style the match m of rule writes (lines 266-270)
RulePaint(rule, s, m) ==
    [styleKey |-> rule.styleKey,
     isLink |-> rule.isLink,
     linkData |-> LinkData(rule, s, m, MatchGroup(rule, s, m.index + 1, rule.linkGroup))]

\* PaintOver that leaves alone what an earlier rule painted
PaintOverKeepFirst(p, m, style) ==
    [i \in DOMAIN p |->
        IF i - 1 >= m.index /\ i - 1 < m.index + m.length /\ p[i] = DefaultPaint
        THEN style ELSE p[i]]

\* lines 263-271: paint[i] = style for every i of the match m
PaintOver(p, m, style) ==
    [i \in DOMAIN p |->
        IF i - 1 >= m.index /\ i - 1 < m.index + m.length THEN style ELSE p[i]]

\* the while loop over rule.regex.exec(lineText) of one rule, m being the
\* result of the exec of the loop condition
RECURSIVE PaintMatches(_, _, _, _)
PaintMatches(rule, s, p, m) ==
    IF ~m.found THEN [paint |-> p, lastIndex |-> m.lastIndex]
    ELSE IF ~rule.global
    THEN [paint |-> PaintOver(p, m, RulePaint(rule, s, m)), lastIndex |-> m.lastIndex]
    ELSE PaintMatches(rule, s, PaintOver(p, m, RulePaint(rule, s, m)),
                      RegexExec(rule, s, m.lastIndex))

\* lines 260-273 for one rule, from the state r = [paint, lastIndex] the
\* rules before it left
PaintRule(rule, s, st, r) ==
    [paint |-> r.paint, lastIndex |-> [st.lastIndex EXCEPT ![rule.id] = r.lastIndex]]

\* ApplyRule without the skip of lines 255-257
ApplyRuleNoSkip(rule, s, isTxt, st) ==
    PaintRule(rule, s, st,
              PaintMatches(rule, s, st.paint,
                           RegexExec(rule, s, IF rule.global THEN 0
                                              ELSE st.lastIndex[rule.id])))

\* one turn of the loop over highlightingRules: a global regex has its
\* lastIndex set to 0 first
ApplyRule(rule, s, isTxt, st) ==
    IF isTxt /\ rule.isDslKeywordRule THEN st
    ELSE PaintRule(rule, s, st,
                   PaintMatches(rule, s, st.paint,
                                RegexExec(rule, s, IF rule.global THEN 0
                                                   ELSE st.lastIndex[rule.id])))

\* step 1: the rules r..9 of the table, in table order
RECURSIVE ApplyRules(_, _, _, _)
ApplyRules(r, s, isTxt, st) ==
    IF r > Len(highlightingRules) THEN st
    ELSE ApplyRules(r + 1, s, isTxt, ApplyRule(highlightingRules[r], s, isTxt, st))

TriplePaint == [styleKey |-> TRIPLE_QUOTE_STYLE_KEY, isLink |-> FALSE]

\* PaintRange leaving the characters of a comment as they are
PaintRangeKeepComment(p, from, to) ==
    [i \in DOMAIN p |->
        IF i - 1 >= from /\ i - 1 < to /\ p[i].styleKey # "Comment"
        THEN TriplePaint ELSE p[i]]

\* paint[i] = TriplePaint for the 0-based i in from..to-1
PaintRange(p, from, to) ==
    [i \in DOMAIN p |-> IF i - 1 >= from /\ i - 1 < to THEN TriplePaint ELSE p[i]]

\* TriplePass with line 309 leaving currentLineInTriple false
RECURSIVE TriplePassNoCarry(_, _, _, _)
TriplePassNoCarry(s, p, currentLineInTriple, searchOffset) ==
    LET markerPos == IndexOf(s, TRIPLE_QUOTE_MARKER, searchOffset)
        closeEnd == IF markerPos # -1 THEN markerPos + Len(TRIPLE_QUOTE_MARKER)
                    ELSE Len(s)
        openEnd == markerPos + Len(TRIPLE_QUOTE_MARKER)
        nextClosingMarkerPos == IndexOf(s, TRIPLE_QUOTE_MARKER, openEnd)
        endSection == IF nextClosingMarkerPos # -1
                      THEN nextClosingMarkerPos + Len(TRIPLE_QUOTE_MARKER)
                      ELSE Len(s)
    IN  IF ~(searchOffset < Len(s))
        THEN [paint |-> p, inTriple |-> currentLineInTriple]
        ELSE IF currentLineInTriple
        THEN IF markerPos # -1
             THEN TriplePassNoCarry(s, PaintRange(p, searchOffset, closeEnd), FALSE,
                                    closeEnd)
             ELSE TriplePassNoCarry(s, PaintRange(p, searchOffset, closeEnd), TRUE,
                                    Len(s))
        ELSE IF markerPos # -1
        THEN TriplePassNoCarry(s, PaintRange(p, markerPos, endSection), FALSE,
                               endSection)
        ELSE TriplePassNoCarry(s, p, FALSE, Len(s))

\* TriplePass with line 295 also ending the span at the end of the line
RECURSIVE TriplePassEndsAtEol(_, _, _, _)
TriplePassEndsAtEol(s, p, currentLineInTriple, searchOffset) ==
    LET markerPos == IndexOf(s, TRIPLE_QUOTE_MARKER, searchOffset)
        closeEnd == IF markerPos # -1 THEN markerPos + Len(TRIPLE_QUOTE_MARKER)
                    ELSE Len(s)
        openEnd == markerPos + Len(TRIPLE_QUOTE_MARKER)
        nextClosingMarkerPos == IndexOf(s, TRIPLE_QUOTE_MARKER, openEnd)
        endSection == IF nextClosingMarkerPos # -1
                      THEN nextClosingMarkerPos + Len(TRIPLE_QUOTE_MARKER)
                      ELSE Len(s)
    IN  IF ~(searchOffset < Len(s))
        THEN [paint |-> p, inTriple |-> currentLineInTriple]
        ELSE IF currentLineInTriple
        THEN IF markerPos # -1
             THEN TriplePassEndsAtEol(s, PaintRange(p, searchOffset, closeEnd), FALSE,
                                      closeEnd)
             ELSE TriplePassEndsAtEol(s, PaintRange(p, searchOffset, closeEnd), FALSE,
                                      Len(s))
        ELSE IF markerPos # -1
        THEN TriplePassEndsAtEol(s, PaintRange(p, markerPos, endSection),
                                 nextClosingMarkerPos = -1, endSection)
        ELSE TriplePassEndsAtEol(s, p, FALSE, Len(s))

\* TriplePass with line 306 leaving currentLineInTriple true after a span
\* that opens and closes on the line
RECURSIVE TriplePassStaysOpen(_, _, _, _)
TriplePassStaysOpen(s, p, currentLineInTriple, searchOffset) ==
    LET markerPos == IndexOf(s, TRIPLE_QUOTE_MARKER, searchOffset)
        closeEnd == IF markerPos # -1 THEN markerPos + Len(TRIPLE_QUOTE_MARKER)
                    ELSE Len(s)
        openEnd == markerPos + Len(TRIPLE_QUOTE_MARKER)
        nextClosingMarkerPos == IndexOf(s, TRIPLE_QUOTE_MARKER, openEnd)
        endSection == IF nextClosingMarkerPos # -1
                      THEN nextClosingMarkerPos + Len(TRIPLE_QUOTE_MARKER)
                      ELSE Len(s)
    IN  IF ~(searchOffset < Len(s))
        THEN [paint |-> p, inTriple |-> currentLineInTriple]
        ELSE IF currentLineInTriple
        THEN IF markerPos # -1
             THEN TriplePassStaysOpen(s, PaintRange(p, searchOffset, closeEnd), FALSE,
                                      closeEnd)
             ELSE TriplePassStaysOpen(s, PaintRange(p, searchOffset, closeEnd), TRUE,
                                      Len(s))
        ELSE IF markerPos # -1
        THEN TriplePassStaysOpen(s, PaintRange(p, markerPos, endSection), TRUE,
                                 endSection)
        ELSE TriplePassStaysOpen(s, p, FALSE, Len(s))

\* step 2: the while loop of the triple quote pass
RECURSIVE TriplePass(_, _, _, _)
TriplePass(s, p, currentLineInTriple, searchOffset) ==
    LET markerPos == IndexOf(s, TRIPLE_QUOTE_MARKER, searchOffset)
        closeEnd == IF markerPos # -1 THEN markerPos + Len(TRIPLE_QUOTE_MARKER)
                    ELSE Len(s)
        openEnd == markerPos + Len(TRIPLE_QUOTE_MARKER)
        nextClosingMarkerPos == IndexOf(s, TRIPLE_QUOTE_MARKER, openEnd)
        endSection == IF nextClosingMarkerPos # -1
                      THEN nextClosingMarkerPos + Len(TRIPLE_QUOTE_MARKER)
                      ELSE Len(s)
    IN  IF ~(searchOffset < Len(s))
        THEN [paint |-> p, inTriple |-> currentLineInTriple]
        ELSE IF currentLineInTriple
        THEN IF markerPos # -1
             THEN TriplePass(s, PaintRange(p, searchOffset, closeEnd), FALSE, closeEnd)
             ELSE TriplePass(s, PaintRange(p, searchOffset, closeEnd), TRUE, Len(s))
        ELSE IF markerPos # -1
        THEN TriplePass(s, PaintRange(p, markerPos, endSection),
                        nextClosingMarkerPos = -1, endSection)
        ELSE TriplePass(s, p, FALSE, Len(s))

\* a field of a paint entry or token, Undefined when the object has none
LinkDataOf(o) == IF "linkData" \in DOMAIN o THEN o.linkData ELSE Undefined

\* the token pushed for the run text painted cp; currentTheme[...].className
\* throws a TypeError when the theme has no entry for the style key
Token(text, cp) ==
    [text |-> text,
     className |-> IF cp.styleKey \in DOMAIN currentTheme
                   THEN currentTheme[cp.styleKey] ELSE "TypeError",
     isLink |-> cp.isLink,
     linkData |-> LinkDataOf(cp)]

\* SamePaint finding no two characters alike unless they are of a link
SamePaintLinksOnly(a, b) ==
    /\ a.styleKey = b.styleKey
    /\ a.isLink /\ b.isLink
    /\ LinkDataOf(a) = LinkDataOf(b)

SamePaint(a, b) ==
    /\ a.styleKey = b.styleKey
    /\ a.isLink = b.isLink
    /\ LinkDataOf(a) = LinkDataOf(b)

\* ConsolidateFrom with line 342 starting the new run empty
RECURSIVE ConsolidateFromEmptyRun(_, _, _, _, _, _)
ConsolidateFromEmptyRun(s, p, i, currentText, currentPaint, lineTokens) ==
    IF i > Len(s) THEN Append(lineTokens, Token(currentText, currentPaint))
    ELSE IF ~SamePaint(p[i], currentPaint)
    THEN ConsolidateFromEmptyRun(s, p, i + 1, <<>>, p[i],
                                 Append(lineTokens, Token(currentText, currentPaint)))
    ELSE ConsolidateFromEmptyRun(s, p, i + 1, Append(currentText, s[i]),
                                 currentPaint, lineTokens)

\* step 3: the for loop of the consolidation, from index i (1-based) on
RECURSIVE ConsolidateFrom(_, _, _, _, _, _)
ConsolidateFrom(s, p, i, currentText, currentPaint, lineTokens) ==
    IF i > Len(s) THEN Append(lineTokens, Token(currentText, currentPaint))
    ELSE IF ~SamePaint(p[i], currentPaint)
    THEN ConsolidateFrom(s, p, i + 1, <<s[i]>>, p[i],
                         Append(lineTokens, Token(currentText, currentPaint)))
    ELSE ConsolidateFrom(s, p, i + 1, Append(currentText, s[i]), currentPaint,
                         lineTokens)

\* ConsolidateLine pushing no token for an empty line
ConsolidateLineNoSentinel(s, p) ==
    IF Len(s) > 0 THEN ConsolidateFrom(s, p, 1, <<>>, p[1], <<>>) ELSE <<>>

\* step 3: the tokens of line s painted p
ConsolidateLine(s, p) ==
    IF Len(s) > 0 THEN ConsolidateFrom(s, p, 1, <<>>, p[1], <<>>)
    ELSE << [text |-> <<>>, className |-> currentTheme["Default"]] >>

\* fullText.split('\n'), the lines after the first i-1 characters, cur being
\* the line under construction
RECURSIVE SplitFrom(_, _, _, _)
SplitFrom(text, i, cur, done) ==
    IF i > Len(text) THEN Append(done, cur)
    ELSE IF text[i] = "\n" THEN SplitFrom(text, i + 1, <<>>, Append(done, cur))
    ELSE SplitFrom(text, i + 1, Append(cur, text[i]), done)

SplitLines(text) == SplitFrom(text, 1, <<>>, <<>>)

----------------------------------------------------------------------------
(* The stream tokenizer of App.js.  Its rules have regexes of their own,   *)
(* without the g flag, so they keep no cursor.  stream.match runs a regex  *)
(* on the rest of the line, string.slice(pos), and takes the match only    *)
(* when it starts at index 0 of that slice: \b at the cursor sees the      *)
(* start of a string, whatever character comes before the cursor.          *)

dslTagNames ==
    {"placeholderLink", "specialTag", "loadCommand", "sectionMarker", "insert",
     "tripleQuoteString", "dslKeyword", "defaultText", "lineComment", "string",
     "number"}

\* the token function's null
Null == "null"

\* DSL_KEYWORDS_PATTERN_STR
DSL_KEYWORDS_PATTERN_STR ==
    << <<"I","F">>, <<"T","H","E","N">>, <<"E","L","S","E","I","F">>,
       <<"E","L","S","E">>, <<"E","N","D","I","F">>, <<"S","E","T">>,
       <<"R","E","T","U","R","N">>, <<"L","O","G">>, <<"A","N","D">>,
       <<"O","R">>, <<"T","R","U","E">>, <<"F","A","L","S","E">>,
       <<"N","O","N","E">> >>

\* TXT_SPECIFIC_COMMANDS_PATTERN_STR
TXT_SPECIFIC_COMMANDS_PATTERN_STR == << <<"L","O","A","D">> >>

StreamRule(id, tokenName) == [id |-> id, tokenName |-> tokenName]

\* getDslRules without the file type: the rules of a script for every file
getDslRulesOfScript(isTxt) ==
    << StreamRule("lineComment", "lineComment"),
       StreamRule("string", "string"),
       StreamRule("loadCommand", "loadCommand"),
       StreamRule("dslKeyword", "dslKeyword"),
       StreamRule("sectionMarker", "sectionMarker"),
       StreamRule("insert", "insert"),
       StreamRule("specialTag", "specialTag"),
       StreamRule("placeholderLink", "placeholderLink"),
       StreamRule("number", "number") >>

getDslRules(isTxt) ==
    << StreamRule("lineComment", "lineComment"),
       StreamRule("string", "string") >>
    \o (IF isTxt
        THEN << StreamRule("txtLoad", "loadCommand") >>
        ELSE << StreamRule("loadCommand", "loadCommand"),
                StreamRule("dslKeyword", "dslKeyword") >>)
    \o << StreamRule("sectionMarker", "sectionMarker"),
          StreamRule("insert", "insert"),
          StreamRule("specialTag", "specialTag"),
          StreamRule("placeholderLink", "placeholderLink"),
          StreamRule("number", "number") >>

\* the length of the match of rule.regex at the start of the string rest
StreamMatchLen(rule, rest) ==
    CASE rule.id = "lineComment" -> MatchComment(rest, 1)
      [] rule.id = "string" -> MatchString(rest, 1)
      [] rule.id = "txtLoad" -> MatchWords(TXT_SPECIFIC_COMMANDS_PATTERN_STR, rest, 1)
      [] rule.id = "loadCommand" -> MatchLoadTagFrom(rest, 1)
      [] rule.id = "dslKeyword" -> MatchWords(DSL_KEYWORDS_PATTERN_STR, rest, 1)
      [] rule.id = "sectionMarker" -> MatchSectionMarker(rest, 1)
      [] rule.id = "insert" -> MatchBraces(WordChars, rest, 1)
      [] rule.id = "specialTag" -> MatchSpecialTag(rest, 1)
      [] rule.id = "placeholderLink" -> MatchPlaceholderLink(rest, 1)
      [] rule.id = "number" -> MatchNumber(rest, 1)

\* string.slice(pos)
Slice(strm) == SubSeq(strm.string, strm.pos + 1, Len(strm.string))

\* stream.eol()
Eol(strm) == strm.pos >= Len(strm.string)

startState == [inTripleQuote |-> FALSE]

\* what a call of token leaves: the stream, the state and the value returned
TokenResult(strm, pos, inTriple, style) ==
    [stream |-> [strm EXCEPT !.pos = pos],
     state |-> [inTripleQuote |-> inTriple],
     style |-> style]

\* the while loop of the inTripleQuote branch, from position pos (0-based):
\* the position it leaves the stream at, and whether it closed the span
RECURSIVE TripleLoop(_, _, _)
TripleLoop(string, pos, escaped) ==
    IF pos >= Len(string) THEN [pos |-> pos, closed |-> FALSE]
    ELSE IF /\ ~escaped
            /\ string[pos + 1] = TRIPLE_QUOTE_MARKER[1]
            /\ LitAt(string, pos + 2, SubSeq(TRIPLE_QUOTE_MARKER, 2, 3))
         THEN [pos |-> pos + 3, closed |-> TRUE]
         ELSE TripleLoop(string, pos + 1, ~escaped /\ string[pos + 1] = "\\")

\* TripleBranch clearing the flag also when the loop met no marker
TripleBranchCloses(strm, loop) ==
    TokenResult(strm, loop.pos, FALSE, "tripleQuoteString")

\* the inTripleQuote branch, loop being what its while loop left
TripleBranch(strm, loop) ==
    TokenResult(strm, loop.pos, ~loop.closed, "tripleQuoteString")

\* the first rule from rule r on whose regex matches at the start of rest;
\* 0: none does
RECURSIVE FirstRule(_, _, _)
FirstRule(rules, r, rest) ==
    IF r > Len(rules) THEN 0
    ELSE IF StreamMatchLen(rules[r], rest) > 0 THEN r
    ELSE FirstRule(rules, r + 1, rest)

\* RuleBranch with the fallback of a template file for every file
RuleBranchDefaultText(strm, rules, r, rest, isTxt) ==
    IF r > 0
    THEN TokenResult(strm, strm.pos + StreamMatchLen(rules[r], rest), FALSE,
                     rules[r].tokenName)
    ELSE TokenResult(strm, IF Eol(strm) THEN strm.pos ELSE strm.pos + 1, FALSE,
                     "defaultText")

\* RuleBranch with a fallback that leaves the cursor where it is
RuleBranchNoNext(strm, rules, r, rest, isTxt) ==
    IF r > 0
    THEN TokenResult(strm, strm.pos + StreamMatchLen(rules[r], rest), FALSE,
                     rules[r].tokenName)
    ELSE TokenResult(strm, strm.pos, FALSE, IF isTxt THEN "defaultText" ELSE Null)

\* the loop over currentRules and the fallback, r being the first rule that
\* matches at the cursor
RuleBranch(strm, rules, r, rest, isTxt) ==
    IF r > 0
    THEN TokenResult(strm, strm.pos + StreamMatchLen(rules[r], rest), FALSE,
                     rules[r].tokenName)
    ELSE TokenResult(strm, IF Eol(strm) THEN strm.pos ELSE strm.pos + 1, FALSE,
                     IF isTxt THEN "defaultText" ELSE Null)

\* token trying the rules before it looks for the marker at the cursor
tokenRulesFirst(strm, st, isTxt) ==
    IF st.inTripleQuote
    THEN TripleBranch(strm, TripleLoop(strm.string, strm.pos, FALSE))
    ELSE IF FirstRule(getDslRules(isTxt), 1, Slice(strm)) > 0
    THEN RuleBranch(strm, getDslRules(isTxt),
                    FirstRule(getDslRules(isTxt), 1, Slice(strm)), Slice(strm), isTxt)
    ELSE IF LitAt(strm.string, strm.pos + 1, TRIPLE_QUOTE_MARKER)
    THEN TokenResult(strm, strm.pos + Len(TRIPLE_QUOTE_MARKER), TRUE,
                     "tripleQuoteString")
    ELSE RuleBranch(strm, getDslRules(isTxt), 0, Slice(strm), isTxt)

\* token(stream, state) of the language made for isTxt
token(strm, st, isTxt) ==
    IF st.inTripleQuote
    THEN TripleBranch(strm, TripleLoop(strm.string, strm.pos, FALSE))
    ELSE IF LitAt(strm.string, strm.pos + 1, TRIPLE_QUOTE_MARKER)
    THEN TokenResult(strm, strm.pos + Len(TRIPLE_QUOTE_MARKER), TRUE,
                     "tripleQuoteString")
    ELSE RuleBranch(strm, getDslRules(isTxt),
                    FirstRule(getDslRules(isTxt), 1, Slice(strm)), Slice(strm), isTxt)

----------------------------------------------------------------------------
(* The documents the tokenizers are run on: every concatenation of at most *)
(* MaxFrags fragments, each fragment a line break or a piece of text that  *)
(* rules of the table or the triple quote pass react to (the last fragment *)
(* is a tag, a number, a section marker and an insert in a row), and the   *)
(* documents of the tokenizer's test cases.                                *)

MaxFrags == 3

Fragments ==
    { <<"\"", "\"", "\"">>,
      <<"\"">>,
      <<"\n">>,
      <<"/", "/">>,
      <<"I", "F">>,
      <<"[", "<", "a", ".", "t", "x", "t", ">", "]">>,
      <<"L","O","A","D"," ","A"," ","F","R","O","M"," ","'","p","'">>,
      <<"<","b",">", "7", "[","#","A","]", "{","{","A","}","}">> }

RECURSIVE DocsOf(_)
DocsOf(k) ==
    IF k = 0 THEN {<<>>}
    ELSE DocsOf(k - 1) \cup {d \o f : d \in DocsOf(k - 1), f \in Fragments}

\* foo """bar \n baz""" qux
DocCarry ==
    <<"f","o","o"," ","\"","\"","\"","b","a","r","\n",
      "b","a","z","\"","\"","\""," ","q","u","x">>
\* SET x = "IF"
DocSetIf == <<"S","E","T"," ","x"," ","=", " ","\"","I","F","\"">>
\* LOAD "x.txt"
DocLoadTxt == <<"L","O","A","D"," ","\"","x",".","t","x","t","\"">>
\* [<Scripts/foo.script>]
DocLink ==
    <<"[","<","S","c","r","i","p","t","s","/","f","o","o",
      ".","s","c","r","i","p","t",">","]">>
\* """ \n x \n (empty) \n // \n """7
DocOpen == <<"\"","\"","\"","\n","x","\n","\n","/","/","\n","\"","\"","\"","7">>

\* LOAD A FROM '[<a.txt>]'
DocLoadLink ==
    <<"L","O","A","D"," ","A"," ","F","R","O","M"," ",
      "'","[","<","a",".","t","x","t",">","]","'">>

\* """ \n \"""x
DocEscaped == <<"\"","\"","\"","\n","\\","\"","\"","\"","x">>

\* [<a.txt>]"""[<b.txt>] \n (empty)
DocLinkSpan ==
    <<"[","<","a",".","t","x","t",">","]","\"","\"","\"",
      "[","<","b",".","t","x","t",">","]","\n">>

\* {{SysInfo}}
DocInsert == <<"{","{","S","y","s","I","n","f","o","}","}">>

\* x[<a.txt>][<b.txt>]
DocTwoLinks ==
    <<"x","[","<","a",".","t","x","t",">","]","[","<","b",".","t","x","t",">","]">>

\* [<{{A}}.txt>]
DocInsertLink == <<"[","<","{","{","A","}","}",".","t","x","t",">","]">>

ExampleDocs ==
    {DocCarry, DocSetIf, DocLoadTxt, DocLink, DocOpen, DocLoadLink, DocEscaped,
     DocLinkSpan, DocInsert, DocTwoLinks, DocInsertLink}

Documents == DocsOf(MaxFrags) \cup ExampleDocs

\* the documents opened after another one, and how many times that happens
OpenedDocs == ExampleDocs

MaxOpens == 1

----------------------------------------------------------------------------
(* A document is opened: the editor parses it with the stream tokenizer,   *)
(* line by line and token by token, and then the overlay is tokenized by   *)
(* generateHighlightedTokens(fullText, isTxtFile), one action per step of  *)
(* its loop over the lines.  The arguments are strings and booleans, so    *)
(* the typeof guard of line 240 never returns.  The two tokenizers share   *)
(* no state.                                                               *)

Init ==
    /\ fullText \in Documents
    /\ isTxtFile \in BOOLEAN
    /\ pc = "idle"
    /\ lines = <<>>
    /\ lineNo = 0
    /\ inTripleQuote = FALSE
    /\ inStates = <<>>
    /\ paint = <<>>
    /\ lastIndex = [id \in RuleIds |-> 0]
    /\ outputLines = <<>>
    /\ raised = FALSE
    /\ prev = <<>>
    /\ stream = [string |-> <<>>, pos |-> 0]
    /\ state = startState
    /\ styled = <<>>
    /\ lineStates = <<>>
    /\ click = <<>>
    /\ earlier = <<>>

\* what a call that has returned leaves: its result, the state each line was
\* entered and the last line was left with, and the regexes' cursors
Returned ==
    [tokens |-> outputLines, inStates |-> inStates, endState |-> inTripleQuote,
     lastIndex |-> lastIndex]

\* a call that goes on with the flag the call before left
CallKeepsFlag ==
    /\ pc \in {"parsed", "returned"}
    /\ prev' = IF pc = "returned" THEN <<Returned>> ELSE prev
    /\ lines' = SplitLines(fullText)
    /\ outputLines' = <<>>
    /\ inTripleQuote' = inTripleQuote
    /\ inStates' = <<>>
    /\ lineNo' = 1
    /\ paint' = <<>>
    /\ pc' = "rules"
    /\ UNCHANGED <<fullText, isTxtFile, lastIndex, raised, streamVars, click, earlier>>

\* lines 240-243: the call, and any later call on the same arguments (the
\* component calls again whenever it renders); prev remembers the call before
Call ==
    /\ pc \in {"parsed", "returned"}
    /\ prev' = IF pc = "returned" THEN <<Returned>> ELSE prev
    /\ lines' = SplitLines(fullText)
    /\ outputLines' = <<>>
    /\ inTripleQuote' = FALSE
    /\ inStates' = <<>>
    /\ lineNo' = 1
    /\ paint' = <<>>
    /\ pc' = "rules"
    /\ UNCHANGED <<fullText, isTxtFile, lastIndex, raised, streamVars, click, earlier>>

\* lines 247-274: the paint array of the line and the rules painted on it
PaintRules ==
    /\ pc = "rules"
    /\ \E st \in {ApplyRules(1, lines[lineNo], isTxtFile,
                              [paint |-> [i \in 1..Len(lines[lineNo]) |-> DefaultPaint],
                               lastIndex |-> lastIndex])} :
          /\ paint' = st.paint
          /\ lastIndex' = st.lastIndex
    /\ inStates' = Append(inStates, inTripleQuote)
    /\ pc' = "triple"
    /\ UNCHANGED <<fullText, isTxtFile, lines, lineNo, inTripleQuote,
                   outputLines, raised, prev, streamVars, click, earlier>>

\* lines 277-321: the triple quote pass and the state carried over
TripleQuotePass ==
    /\ pc = "triple"
    /\ \E r \in {TriplePass(lines[lineNo], paint, inTripleQuote, 0)} :
          /\ paint' = r.paint
          /\ inTripleQuote' = r.inTriple
    /\ pc' = "consolidate"
    /\ UNCHANGED <<fullText, isTxtFile, lines, lineNo, inStates, lastIndex,
                   outputLines, raised, prev, streamVars, click, earlier>>

\* Consolidate starting the next line outside a span whatever the line left
ConsolidateDropsState ==
    /\ pc = "consolidate"
    /\ IF \A i \in DOMAIN paint : paint[i].styleKey \in DOMAIN currentTheme
       THEN /\ outputLines' = Append(outputLines, ConsolidateLine(lines[lineNo], paint))
            /\ lineNo' = IF lineNo < Len(lines) THEN lineNo + 1 ELSE lineNo
            /\ pc' = IF lineNo < Len(lines) THEN "rules" ELSE "returned"
            /\ raised' = raised
       ELSE /\ raised' = TRUE
            /\ pc' = "raised"
            /\ UNCHANGED <<outputLines, lineNo>>
    /\ inTripleQuote' = FALSE
    /\ UNCHANGED <<fullText, isTxtFile, lines, inStates, paint,
                   lastIndex, prev, streamVars, click, earlier>>

\* lines 324-358: the tokens of the line are pushed, and the loop goes to
\* the next line or the function returns (line 360); lines 338, 351 throw a
\* TypeError when currentTheme has no entry for a painted style key
Consolidate ==
    /\ pc = "consolidate"
    /\ IF \A i \in DOMAIN paint : paint[i].styleKey \in DOMAIN currentTheme
       THEN /\ outputLines' = Append(outputLines, ConsolidateLine(lines[lineNo], paint))
            /\ lineNo' = IF lineNo < Len(lines) THEN lineNo + 1 ELSE lineNo
            /\ pc' = IF lineNo < Len(lines) THEN "rules" ELSE "returned"
            /\ raised' = raised
       ELSE /\ raised' = TRUE
            /\ pc' = "raised"
            /\ UNCHANGED <<outputLines, lineNo>>
    /\ UNCHANGED <<fullText, isTxtFile, lines, inTripleQuote, inStates, paint,
                   lastIndex, prev, streamVars, click, earlier>>

\* the lines of the document the editor feeds the stream tokenizer
DocLines == SplitLines(fullText)

\* the line after the last line started, or the end of the parse
AfterLine == IF Len(styled) < Len(DocLines) THEN "line" ELSE "parsed"

\* startState: the editor starts a parse of the document
StartState ==
    /\ pc = "idle"
    /\ state' = startState
    /\ pc' = "line"
    /\ UNCHANGED <<fullText, isTxtFile, lines, lineNo, inTripleQuote, inStates,
                   paint, lastIndex, outputLines, raised, prev, stream, styled,
                   lineStates, click, earlier>>

\* the editor goes to the next line with the state the line before left; it
\* does not call token on an empty line (the language has no blankLine)
StreamLine ==
    /\ pc = "line"
    /\ stream' = [string |-> DocLines[Len(styled) + 1], pos |-> 0]
    /\ lineStates' = Append(lineStates, state.inTripleQuote)
    /\ styled' = Append(styled, <<>>)
    /\ pc' = IF DocLines[Len(styled) + 1] # <<>> THEN "token"
             ELSE IF Len(styled) + 1 < Len(DocLines) THEN "line" ELSE "parsed"
    /\ UNCHANGED <<fullText, isTxtFile, lines, lineNo, inTripleQuote, inStates,
                   paint, lastIndex, outputLines, raised, prev, state, click, earlier>>

\* one call of token on a stream that is not at the end of its line
StreamToken ==
    /\ pc = "token"
    /\ \E r \in {token(stream, state, isTxtFile)} :
          /\ stream' = r.stream
          /\ state' = r.state
          /\ styled' = [styled EXCEPT ![Len(styled)] =
                           Append(@, [text |-> SubSeq(stream.string, stream.pos + 1,
                                                      r.stream.pos),
                                      tokenName |-> r.style])]
          /\ pc' = IF ~Eol(r.stream) THEN "token" ELSE AfterLine
    /\ UNCHANGED <<fullText, isTxtFile, lines, lineNo, inTripleQuote, inStates,
                   paint, lastIndex, outputLines, raised, prev, lineStates, click, earlier>>

----------------------------------------------------------------------------
(* The link resolver of the editor: the mousedown handler EditorArea        *)
(* registers on the editor view.  The highlight style gives every stream    *)
(* token an element whose class is the theme class of the token's tag; a    *)
(* token without a tag is plain text of the line element.                   *)

RECURSIVE ConcatTexts(_)
ConcatTexts(toks) ==
    IF toks = <<>> THEN <<>> ELSE Head(toks).text \o ConcatTexts(Tail(toks))

\* dslHighlightStyleObject: token name -> class of the rendered element
dslHighlightStyleObject(tokenName) ==
    CASE tokenName = "dslKeyword" -> currentTheme["Keyword"]
      [] tokenName = "loadCommand" -> currentTheme["LoadCommand"]
      [] tokenName = "placeholderLink" -> currentTheme["PlaceholderLink"]
      [] tokenName = "lineComment" -> currentTheme["Comment"]
      [] tokenName = "string" -> currentTheme["String"]
      [] tokenName = "tripleQuoteString" -> currentTheme["TripleQuoteString"]
      [] tokenName = "number" -> currentTheme["Number"]
      [] tokenName = "specialTag" -> currentTheme["SpecialTag"]
      [] tokenName = "sectionMarker" -> currentTheme["SectionMarker"]
      [] tokenName = "insert" -> currentTheme["Insert"]
      [] tokenName = "defaultText" -> currentTheme["Default"]
      [] OTHER -> "cm-line"

\* an element of the editor: its class list and its text
Element(tokenName, innerText) ==
    [classList |-> {dslHighlightStyleObject(tokenName)}, innerText |-> innerText]

\* the tokens of a styled document, as <<line, index>>
TokenSpots(doc) ==
    UNION {{<<l, i>> : i \in 1..Len(doc[l])} : l \in DOMAIN doc}

\* the elements drawn for the token at spot p: the token itself, a run of
\* neighbouring tokens of its name drawn as one element, and for a link
\* token an element holding its text without the first character
ElementsAt(toks, i) ==
    {Element(toks[i].tokenName, ConcatTexts(SubSeq(toks, i, j))) :
        j \in {j \in i..Len(toks) :
                 \A k \in i..j : toks[k].tokenName = toks[i].tokenName}}
    \cup (IF toks[i].tokenName = "placeholderLink"
          THEN {Element(toks[i].tokenName, Tail(toks[i].text))}
          ELSE {})

\* the elements a mousedown can land on
Targets(doc) == UNION {ElementsAt(doc[p[1]], p[2]) : p \in TokenSpots(doc)}

\* linkText.match(placeholderLinkRegex): the leftmost match; found is FALSE
\* where match returns null
placeholderLinkRegex(linkText) ==
    LET i == FirstOf({i \in 1..Len(linkText) : MatchPlaceholderLink(linkText, i) > 0})
    IN  IF i = 0 THEN [found |-> FALSE, index |-> 0, length |-> 0]
        ELSE [found |-> TRUE, index |-> i - 1,
              length |-> MatchPlaceholderLink(linkText, i)]

\* match[2] of a match of placeholderLinkRegex
LinkGroup2(linkText, match) ==
    SubSeq(linkText, match.index + 3, match.index + match.length - 2)

\* what a mousedown leaves behind: the calls of onOpenPathByString, whether
\* preventDefault was called, and the handler's return value
MouseDownOutcome(opened, defaultPrevented, handled) ==
    [opened |-> opened, defaultPrevented |-> defaultPrevented, handled |-> handled]

mousedownIgnoresView(ctrlKey, isMobileView, target, match) ==
    IF /\ ctrlKey
       /\ "sh-placeholder-link" \in target.classList
       /\ match.found /\ LinkGroup2(target.innerText, match) # <<>>
    THEN MouseDownOutcome(<<LinkGroup2(target.innerText, match)>>, TRUE, TRUE)
    ELSE MouseDownOutcome(<<>>, FALSE, FALSE)

\* the mousedown handler; match is linkText.match(placeholderLinkRegex)
mousedown(ctrlKey, isMobileView, target, match) ==
    IF /\ ctrlKey /\ ~isMobileView
       /\ "sh-placeholder-link" \in target.classList
       /\ match.found /\ LinkGroup2(target.innerText, match) # <<>>
    THEN MouseDownOutcome(<<LinkGroup2(target.innerText, match)>>, TRUE, TRUE)
    ELSE MouseDownOutcome(<<>>, FALSE, FALSE)

\* a mousedown on an element of the highlighted document
MouseDown ==
    /\ pc = "parsed"
    /\ \E ctrlKey \in BOOLEAN, isMobileView \in BOOLEAN, target \in Targets(styled) :
        \E match \in {placeholderLinkRegex(target.innerText)} :
            click' = [ctrlKey |-> ctrlKey, isMobileView |-> isMobileView,
                      target |-> target,
                      outcome |-> mousedown(ctrlKey, isMobileView, target, match)]
    /\ pc' = "clicked"
    /\ UNCHANGED <<fullText, isTxtFile, lines, lineNo, inTripleQuote, inStates,
                   paint, lastIndex, outputLines, raised, prev, streamVars,
                   earlier>>

\* another document is opened in the editor: a new editor state with a new
\* parse, and later calls of generateHighlightedTokens on the new text.  The
\* parse and the locals of the call before are gone; the regexes of
\* highlightingRules are the module's, the register of the last parse and
\* the flag of the last call stay where they are until they are written
OpenDocument ==
    /\ pc \in {"parsed", "returned"}
    /\ Len(earlier) < MaxOpens
    /\ fullText' \in OpenedDocs
    /\ isTxtFile' \in BOOLEAN
    /\ earlier' = Append(earlier, [batch |-> inTripleQuote,
                                   stream |-> state.inTripleQuote])
    /\ pc' = "idle"
    /\ lines' = <<>>
    /\ lineNo' = 0
    /\ inStates' = <<>>
    /\ paint' = <<>>
    /\ outputLines' = <<>>
    /\ prev' = <<>>
    /\ stream' = [string |-> <<>>, pos |-> 0]
    /\ styled' = <<>>
    /\ lineStates' = <<>>
    /\ click' = <<>>
    /\ UNCHANGED <<inTripleQuote, state, lastIndex, raised>>

Next ==
    \/ StartState \/ StreamLine \/ StreamToken \/ MouseDown \/ OpenDocument
    \/ Call \/ PaintRules \/ TripleQuotePass \/ Consolidate

Spec == Init /\ [][Next]_vars

----------------------------------------------------------------------------
(* Properties of the batch engine.  Line k of the document is done once    *)
(* outputLines[k] exists; it was entered with inStates[k].                 *)

\* for every character of a line, in order, the token that holds it
RECURSIVE CharTokens(_)
CharTokens(toks) ==
    IF toks = <<>> THEN <<>>
    ELSE [i \in 1..Len(Head(toks).text) |-> Head(toks)] \o CharTokens(Tail(toks))

RECURSIVE JoinLines(_)
JoinLines(ls) ==
    IF Len(ls) = 0 THEN <<>>
    ELSE IF Len(ls) = 1 THEN ls[1]
    ELSE ls[1] \o <<"\n">> \o JoinLines(Tail(ls))

\* the state line k was left with
OutState(k) == IF k < Len(inStates) THEN inStates[k + 1] ELSE inTripleQuote

TripleClass == currentTheme[TRIPLE_QUOTE_STYLE_KEY]

\* C1: the token texts of every line, concatenated in order, are the line;
\* the result has one token list per '\n'-separated line, and the lines so
\* rebuilt, joined by '\n', are the document
C1_RoundTrip ==
    pc = "returned" =>
          /\ \A k \in DOMAIN outputLines : ConcatTexts(outputLines[k]) = lines[k]
          /\ Len(outputLines)
                = 1 + Cardinality({i \in DOMAIN fullText : fullText[i] = "\n"})
          /\ JoinLines([k \in DOMAIN outputLines |-> ConcatTexts(outputLines[k])])
                = fullText

C1_Witness ==
    /\ pc = "returned"
    /\ Len(outputLines) >= 2
    /\ \E k \in DOMAIN outputLines : Len(outputLines[k]) >= 3

\* the token of text painted with style key k, no link
Tok(text, k) ==
    [text |-> text, className |-> currentTheme[k], isLink |-> FALSE,
     linkData |-> Undefined]

\* the first marker of s, 0-based, and the first one after it; -1: none
FirstMarker(s) == IndexOf(s, TRIPLE_QUOTE_MARKER, 0)
SecondMarker(s) ==
    IndexOf(s, TRIPLE_QUOTE_MARKER, FirstMarker(s) + Len(TRIPLE_QUOTE_MARKER))

\* the position after the first marker and before the second, or the end of s
AfterFirstSpanEnd(s) == IF SecondMarker(s) = -1 THEN Len(s) ELSE SecondMarker(s)

\* C2: a line entered outside a triple quote with one opening marker and no
\* later marker is TripleQuoteString from the marker to its end and leaves the
\* state true; a line entered inside one is TripleQuoteString up to and
\* including its first marker and not TripleQuoteString after it (up to the
\* next marker, if the line has one); the two lines foo """bar / baz""" qux
\* give exactly these tokens
C2_TripleQuoteCarry ==
    /\ \A k \in DOMAIN outputLines :
          /\ (~inStates[k] /\ FirstMarker(lines[k]) # -1 /\ SecondMarker(lines[k]) = -1)
                => /\ \A j \in FirstMarker(lines[k]) + 1..Len(lines[k]) :
                         CharTokens(outputLines[k])[j].className = TripleClass
                   /\ OutState(k)
          /\ (inStates[k] /\ FirstMarker(lines[k]) # -1)
                => /\ \A j \in 1..FirstMarker(lines[k]) + 3 :
                         CharTokens(outputLines[k])[j].className = TripleClass
                   /\ \A j \in FirstMarker(lines[k]) + 4..AfterFirstSpanEnd(lines[k]) :
                         CharTokens(outputLines[k])[j].className # TripleClass
    /\ (fullText = DocCarry /\ pc = "returned")
          => outputLines =
                << << Tok(<<"f","o","o"," ">>, "Default"),
                      Tok(<<"\"","\"","\"","b","a","r">>, "TripleQuoteString") >>,
                   << Tok(<<"b","a","z","\"","\"","\"">>, "TripleQuoteString"),
                      Tok(<<" ","q","u","x">>, "Default") >> >>

C2_Witness == fullText = DocCarry /\ pc = "returned" /\ inStates = <<FALSE, TRUE>>

\* C3: in the script line SET x = "IF" the IF between the quotes is String
C3_StringOverridesKeyword ==
    (fullText = DocSetIf /\ ~isTxtFile /\ pc = "returned")
        => /\ CharTokens(outputLines[1])[10].className = currentTheme["String"]
           /\ CharTokens(outputLines[1])[11].className = currentTheme["String"]

\* C5: a template file gets no Keyword and no LoadCommand style, in the paint
\* array and in the tokens; LOAD "x.txt" is a Default run and a String
C5_TemplateGating ==
    isTxtFile =>
        /\ \A i \in DOMAIN paint : paint[i].styleKey \notin {"Keyword", "LoadCommand"}
        /\ \A k \in DOMAIN outputLines : \A n \in DOMAIN outputLines[k] :
              outputLines[k][n].className
                 \notin {currentTheme["Keyword"], currentTheme["LoadCommand"]}
        /\ (fullText = DocLoadTxt /\ pc = "returned")
              => outputLines =
                    << << Tok(<<"L","O","A","D"," ">>, "Default"),
                          Tok(<<"\"","x",".","t","x","t","\"">>, "String") >> >>

\* a template file with a line the keyword rule and the LOAD ... FROM rule match
C5_Witness ==
    /\ isTxtFile
    /\ pc = "returned"
    /\ \E k \in DOMAIN lines : \E i \in DOMAIN lines[k] :
          MatchLoadTagFrom(lines[k], i) > 0 /\ MatchKeyword(lines[k], i) > 0

\* the 0-based positions of the markers of s met scanning it from the 0-based
\* position from on, each scan resuming after the marker found
RECURSIVE MarkerStartsAt(_, _)
MarkerStartsAt(s, found) ==
    IF found = -1 THEN {}
    ELSE {found}
            \cup MarkerStartsAt(s, IndexOf(s, TRIPLE_QUOTE_MARKER,
                                           found + Len(TRIPLE_QUOTE_MARKER)))

MarkerStarts(s, from) == MarkerStartsAt(s, IndexOf(s, TRIPLE_QUOTE_MARKER, from))

\* character j of a line entered with state in lies in a triple quote span:
\* it is a character of a marker, or the state, flipped once for each marker
\* that ends before it, is true
InSpan(markers, in, j) ==
    \/ \E m \in markers : m < j /\ j <= m + Len(TRIPLE_QUOTE_MARKER)
    \/ in # (Cardinality({m \in markers : m + Len(TRIPLE_QUOTE_MARKER) < j}) % 2 = 1)

InTripleSpan(s, in, j) == InSpan(MarkerStarts(s, 0), in, j)

\* the characters of s, entered with state in, that lie in a triple quote span
SpanCharsOf(s, in, markers) == {j \in DOMAIN s : InSpan(markers, in, j)}

\* the characters of line k that lie in a triple quote span
SpanChars(k) == SpanCharsOf(lines[k], inStates[k], MarkerStarts(lines[k], 0))

\* every character of the set S has a token of class cls, ct being the
\* tokens of the characters of the line
AllOfClass(ct, S, cls) == \A j \in S : ct[j].className = cls

\* no character of the set S is in a link token
NoneIsLink(ct, S) == \A j \in S : ct[j].isLink = FALSE /\ ct[j].linkData = Undefined

\* C4: in the result of a call every character in a triple quote span is
\* TripleQuoteString and no link, whatever the rules painted on it
C4_TripleQuotePriority ==
    pc = "returned" =>
        \A k \in DOMAIN outputLines :
            /\ AllOfClass(CharTokens(outputLines[k]), SpanChars(k), TripleClass)
            /\ NoneIsLink(CharTokens(outputLines[k]), SpanChars(k))

\* a line with a marker inside a comment and a placeholder in the span
C4_Witness ==
    /\ pc = "returned"
    /\ \E k \in DOMAIN lines : \E i \in DOMAIN lines[k] :
          /\ MatchComment(lines[k], i) > 0
          /\ \E m \in MarkerStarts(lines[k], 0) : m + 1 > i
          /\ \E j \in DOMAIN lines[k] :
                /\ MatchPlaceholderLink(lines[k], j) > 0
                /\ InTripleSpan(lines[k], inStates[k], j)

\* the matches the exec loop of a rule finds in s, m being the first
RECURSIVE ExecMatches(_, _, _)
ExecMatches(rule, s, m) ==
    IF ~m.found THEN {}
    ELSE {m} \cup ExecMatches(rule, s, RegexExec(rule, s, m.lastIndex))

\* the matches of rule r of the table in s
RuleMatches(r, s) ==
    ExecMatches(highlightingRules[r], s, RegexExec(highlightingRules[r], s, 0))

\* the characters of s that a match of a rule after rule r0 covers, among the
\* rules that apply to the file type
CoveredAfter(r0, s, isTxt) ==
    UNION {UNION {m.index + 1..m.index + m.length : m \in RuleMatches(r, s)} :
             r \in {q \in r0 + 1..Len(highlightingRules) :
                      ~(isTxt /\ highlightingRules[q].isDslKeywordRule)}}

\* the characters of the match m
MatchChars(m) == m.index + 1..m.index + m.length

\* the text between [< and >] of the placeholder match m
PathOf(s, m) == SubSeq(s, m.index + 3, m.index + m.length - 2)

LinkRule == 6

\* the placeholder match m of line k lies outside every triple quote span
OutsideSpans(k, m) == MatchChars(m) \cap SpanChars(k) = {}

\* line k has a link token whose linkData is path
HasLinkToken(k, path) ==
    \E n \in DOMAIN outputLines[k] :
        /\ outputLines[k][n].isLink = TRUE
        /\ outputLines[k][n].linkData = Defined(path)

\* C6 as claimed: every placeholder outside the triple quote spans gives a
\* link token whose linkData is the text between [< and >]
C6_LinkExtraction ==
    pc = "returned" =>
    \A k \in DOMAIN outputLines : \A m \in RuleMatches(LinkRule, lines[k]) :
        OutsideSpans(k, m) => HasLinkToken(k, PathOf(lines[k], m))

\* C6 amended: every placeholder outside the triple quote spans that the
\* matches of the later rules do not cover whole gives a link token whose
\* linkData is the text between [< and >], unchanged, and every link token
\* carries the path of a placeholder of its line; [<Scripts/foo.script>] is one
\* link token with linkData Scripts/foo.script
C6_LinkExtractionUncovered ==
    pc = "returned" =>
    /\ \A k \in DOMAIN outputLines : \A m \in RuleMatches(LinkRule, lines[k]) :
          (/\ OutsideSpans(k, m)
           /\ MatchChars(m) \ CoveredAfter(LinkRule, lines[k], isTxtFile) # {})
             => HasLinkToken(k, PathOf(lines[k], m))
    /\ \A k \in DOMAIN outputLines : \A n \in DOMAIN outputLines[k] :
          ("isLink" \in DOMAIN outputLines[k][n] /\ outputLines[k][n].isLink)
             => \E m \in RuleMatches(LinkRule, lines[k]) :
                   outputLines[k][n].linkData = Defined(PathOf(lines[k], m))
    /\ fullText = DocLink
          => outputLines =
                << << [text |-> DocLink,
                       className |-> currentTheme["PlaceholderLink"],
                       isLink |-> TRUE,
                       linkData |-> Defined(SubSeq(DocLink, 3, Len(DocLink) - 2))] >> >>

\* a line with a placeholder outside the spans and a later rule's match in it
C6_Witness ==
    /\ pc = "returned"
    /\ \E k \in DOMAIN outputLines : \E m \in RuleMatches(LinkRule, lines[k]) :
          /\ OutsideSpans(k, m)
          /\ HasLinkToken(k, PathOf(lines[k], m))
          /\ Len(outputLines[k]) >= 2

\* C7: an empty line gives the one token {text: '', className: Default's}
\* and leaves the state as it entered
C7_EmptyLine ==
    \A k \in DOMAIN outputLines :
        lines[k] = <<>>
            => /\ outputLines[k] = << [text |-> <<>>, className |-> currentTheme["Default"]] >>
               /\ OutState(k) = inStates[k]

\* an empty line entered in a triple quote, and one entered outside
C7_Witness ==
    /\ \E k \in DOMAIN outputLines : lines[k] = <<>> /\ inStates[k]
    /\ \E k \in DOMAIN outputLines : lines[k] = <<>> /\ ~inStates[k]

\* C8: a call on the arguments of the call before returns the same tokens,
\* with the same states along the lines, and every call returns with every
\* rule regex's lastIndex at 0, as the first call found them
C8_Idempotent ==
    pc = "returned"
        => /\ \A id \in RuleIds : lastIndex[id] = 0
           /\ prev # <<>> => Returned = prev[1]

\* a second call has returned, on a document rules matched in
C8_Witness ==
    /\ pc = "returned"
    /\ prev # <<>>
    /\ \E k \in DOMAIN outputLines : Len(outputLines[k]) >= 3
    /\ \E k \in DOMAIN inStates : inStates[k]

\* the state the stream tokenizer left line k with
StreamOutState(k) ==
    IF k < Len(lineStates) THEN lineStates[k + 1] ELSE state.inTripleQuote

\* C9: in both tokenizers, after a line left in a triple quote, every line up
\* to the first one with a marker is TripleQuoteString throughout and leaves
\* the state true; nothing is thrown, every call of token advances, and both
\* tokenizers give a token list for every line
C9_UnterminatedSpan ==
    /\ ~raised
    /\ pc = "returned" => Len(outputLines) = Len(lines)
    /\ \A k1 \in DOMAIN outputLines : \A k2 \in k1 + 1..Len(outputLines) :
          (OutState(k1) /\ \A q \in k1 + 1..k2 : FirstMarker(lines[q]) = -1)
             => /\ AllOfClass(CharTokens(outputLines[k2]), DOMAIN lines[k2], TripleClass)
                /\ OutState(k2)
    /\ \A k \in DOMAIN styled : \A n \in DOMAIN styled[k] : styled[k][n].text # <<>>
    /\ pc = "parsed" =>
          /\ Len(styled) = Len(DocLines)
          /\ \A k1 \in DOMAIN styled : \A k2 \in k1 + 1..Len(styled) :
                (StreamOutState(k1) /\ \A q \in k1 + 1..k2 : FirstMarker(DocLines[q]) = -1)
                   => /\ ConcatTexts(styled[k2]) = DocLines[k2]
                      /\ \A n \in DOMAIN styled[k2] :
                            styled[k2][n].tokenName = "tripleQuoteString"
                      /\ StreamOutState(k2)

\* both tokenizers are done with a document where a span left open runs over
\* three lines, two with text and an empty one between them
C9_Witness ==
    /\ pc = "returned"
    /\ \E k1 \in DOMAIN outputLines :
          /\ OutState(k1) /\ StreamOutState(k1)
          /\ k1 + 3 \in DOMAIN outputLines
          /\ \A q \in k1 + 1..k1 + 3 : FirstMarker(lines[q]) = -1
          /\ lines[k1 + 1] # <<>> /\ lines[k1 + 2] = <<>> /\ lines[k1 + 3] # <<>>
          /\ styled[k1 + 1] # <<>> /\ styled[k1 + 2] = <<>> /\ styled[k1 + 3] # <<>>

StyleCategories ==
    {"Default", "Keyword", "PlaceholderLink", "Comment", "String",
     "TripleQuoteString", "Number", "SpecialTag", "LoadCommand", "SectionMarker",
     "Insert"}

\* C10: no call throws; a call takes one step after the other, with one
\* line done per turn of the loop, until it returns with every line done;
\* every style key painted and every class
\* of a token is that of one of the eleven categories, which the registry
\* all has; a character no rule match covers, outside the triple quote
\* spans, is Default; no character is left out
C10_NeverRaises ==
    /\ ~raised
    /\ pc # "raised"
    /\ pc \in {"rules", "triple", "consolidate"}
          => lineNo \in DOMAIN lines /\ Len(outputLines) = lineNo - 1
    /\ pc = "returned" => Len(outputLines) = Len(lines)
    /\ DOMAIN currentTheme = StyleCategories
    /\ \A i \in DOMAIN paint : paint[i].styleKey \in StyleCategories
    /\ pc = "returned" => \A k \in DOMAIN outputLines :
          /\ \A n \in DOMAIN outputLines[k] :
                \E c \in StyleCategories : outputLines[k][n].className = currentTheme[c]
          /\ Len(CharTokens(outputLines[k])) = Len(lines[k])
          /\ AllOfClass(CharTokens(outputLines[k]),
                        (DOMAIN lines[k] \ SpanChars(k))
                            \ CoveredAfter(0, lines[k], isTxtFile),
                        currentTheme["Default"])

\* a call has returned on a document with characters no rule matches
C10_Witness ==
    /\ pc = "returned"
    /\ \E k \in DOMAIN outputLines :
          (DOMAIN lines[k] \ SpanChars(k)) \ CoveredAfter(0, lines[k], isTxtFile) # {}
    /\ \E k \in DOMAIN outputLines : \E n \in DOMAIN outputLines[k] :
          outputLines[k][n].className = currentTheme["LoadCommand"]

----------------------------------------------------------------------------
(* Properties of the steps of the stream tokenizer.  A step of StreamToken *)
(* is a call of token: stream and state are what it was called with,       *)
(* stream', state' and the last token of the last line of styled' are what *)
(* it left and returned.                                                   *)

\* the token the call of this step returned
LastToken == styled'[Len(styled')][Len(styled'[Len(styled')])]

\* the marker nearest the cursor, 0-based, -1: the rest of the line has none
NextMarker == IndexOf(stream.string, TRIPLE_QUOTE_MARKER, stream.pos)

\* C11: a call of token in a triple quote consumes up to and including the
\* next marker of the line, whatever comes before it, or to the end of the
\* line when there is none, clears the flag exactly when there is a marker,
\* and returns tripleQuoteString
C11_InTripleStep ==
    [][(pc = "token" /\ state.inTripleQuote)
          => /\ stream'.pos = IF NextMarker = -1 THEN Len(stream.string)
                                ELSE NextMarker + Len(TRIPLE_QUOTE_MARKER)
             /\ state'.inTripleQuote = (NextMarker = -1)
             /\ LastToken.tokenName = "tripleQuoteString"]_vars

\* the marker is at the cursor
MarkerAtCursor == LitAt(stream.string, stream.pos + 1, TRIPLE_QUOTE_MARKER)

\* C12: a call of token outside a triple quote with the marker at the cursor
\* consumes the three characters of the marker, sets the flag and returns
\* tripleQuoteString, whatever rule matches there (the string rule matches
\* the first two quotes)
C12_MarkerAtCursor ==
    [][(pc = "token" /\ ~state.inTripleQuote /\ MarkerAtCursor)
          => /\ stream'.pos = stream.pos + Len(TRIPLE_QUOTE_MARKER)
             /\ state'.inTripleQuote
             /\ LastToken.text = TRIPLE_QUOTE_MARKER
             /\ LastToken.tokenName = "tripleQuoteString"]_vars

\* a call has just opened a span at a marker that is not at the start of the
\* line and has text after it, where the string rule matches too
C12_Witness ==
    /\ pc = "token"
    /\ state.inTripleQuote
    /\ stream.pos > Len(TRIPLE_QUOTE_MARKER)
    /\ styled[Len(styled)][Len(styled[Len(styled)])].text = TRIPLE_QUOTE_MARKER
    /\ MatchString(stream.string, stream.pos - Len(TRIPLE_QUOTE_MARKER) + 1) > 0

\* the token name the stream tokenizer has for each style key of the rule
\* table of the batch tokenizer (the tags of dslHighlightStyleObject)
TagOf ==
    [k \in {"Comment", "String", "Keyword", "SpecialTag", "Number",
            "PlaceholderLink", "LoadCommand", "SectionMarker", "Insert"} |->
        CASE k = "Comment" -> "lineComment"
          [] k = "String" -> "string"
          [] k = "Keyword" -> "dslKeyword"
          [] k = "SpecialTag" -> "specialTag"
          [] k = "Number" -> "number"
          [] k = "PlaceholderLink" -> "placeholderLink"
          [] k = "LoadCommand" -> "loadCommand"
          [] k = "SectionMarker" -> "sectionMarker"
          [] k = "Insert" -> "insert"]

\* the rules of highlightingRules that apply to the file type and match in
\* string at the 0-based position pos
TableMatches(string, pos, isTxt) ==
    {r \in DOMAIN highlightingRules :
        /\ ~(isTxt /\ highlightingRules[r].isDslKeywordRule)
        /\ MatchLen(highlightingRules[r], string, pos + 1) > 0}

\* C13: a call of token outside a triple quote, with no marker at the cursor
\* and a rule of highlightingRules matching at the cursor, returns the
\* category of the first such rule in the order of highlightingRules and
\* consumes its match
C13_TableOrder ==
    [][(/\ pc = "token" /\ ~state.inTripleQuote /\ ~MarkerAtCursor
        /\ TableMatches(stream.string, stream.pos, isTxtFile) # {})
          => /\ LastToken.tokenName =
                   TagOf[highlightingRules[
                       Min(TableMatches(stream.string, stream.pos, isTxtFile))].styleKey]
             /\ stream'.pos = stream.pos +
                   MatchLen(highlightingRules[
                       Min(TableMatches(stream.string, stream.pos, isTxtFile))],
                            stream.string, stream.pos + 1)]_vars

\* the rules of the stream tokenizer that stream.match finds at the cursor
RulesAtCursor ==
    {r \in DOMAIN getDslRules(isTxtFile) :
        StreamMatchLen(getDslRules(isTxtFile)[r], Slice(stream)) > 0}

\* C14: a call of token outside a triple quote, with no marker at the cursor
\* and no rule that stream.match finds there, consumes one character, returns
\* defaultText in a template file and null in a script file, and leaves the
\* state as it was
C14_Fallback ==
    [][(pc = "token" /\ ~state.inTripleQuote /\ ~MarkerAtCursor /\ RulesAtCursor = {})
          => /\ stream'.pos = stream.pos + 1
             /\ LastToken.text = <<stream.string[stream.pos + 1]>>
             /\ LastToken.tokenName = IF isTxtFile THEN "defaultText" ELSE Null
             /\ state' = state]_vars

\* a script file where a call has just returned null for one character and
\* calls before it on the line returned a rule's token and null
C14_Witness ==
    /\ ~isTxtFile
    /\ pc = "token"
    /\ Len(styled[Len(styled)]) >= 3
    /\ styled[Len(styled)][Len(styled[Len(styled)])].tokenName = Null
    /\ \E n \in DOMAIN styled[Len(styled)] :
          styled[Len(styled)][n].tokenName \notin {Null, "tripleQuoteString"}

----------------------------------------------------------------------------
(* Properties of the tokens of the batch tokenizer.                        *)

\* the token is a link: its isLink is true (the token of an empty line has
\* no isLink)
IsLinkToken(tok) == "isLink" \in DOMAIN tok /\ tok.isLink = TRUE

\* the token carries link data: it has a linkData that is not undefined
CarriesLinkData(tok) == "linkData" \in DOMAIN tok /\ tok.linkData # Undefined

\* C15: in what a call returns, a token has empty text only when it is the
\* one token of an empty line; a token carries link data exactly when its
\* isLink is true, the data then being a text that is not empty; a
\* TripleQuoteString or Default token carries none
C15_TokenInvariant ==
    pc = "returned" =>
        \A k \in DOMAIN outputLines : \A n \in DOMAIN outputLines[k] :
            /\ outputLines[k][n].text = <<>>
                   => (lines[k] = <<>> /\ Len(outputLines[k]) = 1)
            /\ IsLinkToken(outputLines[k][n]) <=> CarriesLinkData(outputLines[k][n])
            /\ CarriesLinkData(outputLines[k][n])
                   => outputLines[k][n].linkData[1] # <<>>
            /\ outputLines[k][n].className
                      \in {TripleClass, currentTheme["Default"]}
                   => ~CarriesLinkData(outputLines[k][n])

\* a result with the token of an empty line, a link token, and a placeholder
\* that lies in a triple quote span
C15_Witness ==
    /\ pc = "returned"
    /\ \E k \in DOMAIN outputLines : outputLines[k][1].text = <<>>
    /\ \E k \in DOMAIN outputLines : \E n \in DOMAIN outputLines[k] :
          IsLinkToken(outputLines[k][n])
    /\ \E k \in DOMAIN outputLines : \E m \in RuleMatches(LinkRule, lines[k]) :
          MatchChars(m) \subseteq SpanChars(k)

----------------------------------------------------------------------------
(* The link resolver.                                                       *)

\* the mousedown is the link gesture: Ctrl held, desktop layout
LinkGesture == click.ctrlKey /\ ~click.isMobileView

\* the element under the mousedown is drawn as a placeholder link
OnLinkElement == "sh-placeholder-link" \in click.target.classList

\* the places of the element's text where a placeholder [<path>] starts
PlaceholdersIn(text) == {i \in 1..Len(text) : MatchPlaceholderLink(text, i) > 0}

\* the element's text is one whole placeholder [<path>]
WholePlaceholder(text) == MatchPlaceholderLink(text, 1) = Len(text)

\* C16: the path opener is called only on a Ctrl mousedown in the desktop
\* layout on an element drawn as a placeholder link whose text holds a
\* placeholder; it is then called exactly once, with the text between the
\* [< and >] of the first placeholder of the element's text, the default
\* action is prevented and the handler reports the event handled.  Every
\* other mousedown calls nothing, prevents nothing and is not handled.
C16_LinkResolver ==
    pc = "clicked" =>
        LET text == click.target.innerText
            opening == LinkGesture /\ OnLinkElement /\ PlaceholdersIn(text) # {}
        IN  /\ opening =>
                /\ Len(click.outcome.opened) = 1
                /\ \E i \in {Min(PlaceholdersIn(text))} :
                     click.outcome.opened[1] =
                        SubSeq(text, i + 2, i + MatchPlaceholderLink(text, i) - 3)
                /\ WholePlaceholder(text) =>
                     text = <<"[", "<">> \o click.outcome.opened[1] \o <<">", "]">>
                /\ click.outcome.defaultPrevented
                /\ click.outcome.handled
            /\ ~opening =>
                /\ click.outcome.opened = <<>>
                /\ ~click.outcome.defaultPrevented
                /\ ~click.outcome.handled

\* a Ctrl mousedown in the desktop layout on a whole link opened its path
C16_Witness ==
    /\ pc = "clicked"
    /\ LinkGesture /\ OnLinkElement
    /\ WholePlaceholder(click.target.innerText)
    /\ click.outcome.opened = <<<<"a", ".", "t", "x", "t">>>>

\* a Ctrl mousedown in the desktop layout on a link element whose text holds
\* no whole placeholder
C16_WitnessNoMatch ==
    /\ pc = "clicked"
    /\ LinkGesture /\ OnLinkElement
    /\ PlaceholdersIn(click.target.innerText) = {}

----------------------------------------------------------------------------
(* Cross-document independence.  FreshCall and FreshParse are what the two  *)
(* tokenizers give for a text and a file type when nothing came before:     *)
(* the flag false at the first line, every regex cursor at 0.               *)

NoCursor == [id \in RuleIds |-> 0]

FreshAcc(acc, tokens, entered, left) ==
    [tokens |-> Append(acc.tokens, tokens),
     inStates |-> Append(acc.inStates, entered), endState |-> left]

FreshLine(s, r) == [tokens |-> ConsolidateLine(s, r.paint), left |-> r.inTriple]

RECURSIVE FreshLines(_, _, _, _, _)
FreshLines(lns, k, isTxt, inTriple, acc) ==
    IF k > Len(lns) THEN acc
    ELSE LET st == ApplyRules(1, lns[k], isTxt,
                              [paint |-> [i \in 1..Len(lns[k]) |-> DefaultPaint],
                               lastIndex |-> NoCursor])
             ln == FreshLine(lns[k], TriplePass(lns[k], st.paint, inTriple, 0))
         IN  FreshLines(lns, k + 1, isTxt, ln.left,
                        FreshAcc(acc, ln.tokens, inTriple, ln.left))

FreshCall(text, isTxt) ==
    FreshLines(SplitLines(text), 1, isTxt, FALSE,
               [tokens |-> <<>>, inStates |-> <<>>, endState |-> FALSE])

RECURSIVE FreshTokens(_, _, _, _)
FreshToken(strm, isTxt, acc, r) ==
    FreshTokens(r.stream, r.state, isTxt,
                Append(acc, [text |-> SubSeq(strm.string, strm.pos + 1, r.stream.pos),
                             tokenName |-> r.style]))

FreshTokens(strm, st, isTxt, acc) ==
    IF Eol(strm) THEN [tokens |-> acc, state |-> st]
    ELSE FreshToken(strm, isTxt, acc, token(strm, st, isTxt))

RECURSIVE FreshParseFrom(_, _, _, _, _)
FreshParseLine(lns, k, isTxt, st, acc, r) ==
    FreshParseFrom(lns, k + 1, isTxt, r.state,
                   [tokens |-> Append(acc.tokens, r.tokens),
                    lineStates |-> Append(acc.lineStates, st.inTripleQuote)])

FreshParseFrom(lns, k, isTxt, st, acc) ==
    IF k > Len(lns) THEN acc
    ELSE FreshParseLine(lns, k, isTxt, st, acc,
                        FreshTokens([string |-> lns[k], pos |-> 0], st, isTxt, <<>>))

FreshParse(text, isTxt) ==
    FreshParseFrom(SplitLines(text), 1, isTxt, [inTripleQuote |-> FALSE],
                   [tokens |-> <<>>, lineStates |-> <<>>])

\* C17: whatever documents were tokenized before, a tokenization enters its
\* first line with inTripleQuote false, the regexes of the table carry no
\* cursor between calls, and the tokens and the carried states of the batch
\* call and of the parse are those the text and the file type alone give.
C17_Independence ==
    /\ (pc = "rules" /\ lineNo = 1) => ~inTripleQuote
    /\ (pc = "line" /\ styled = <<>>) => ~state.inTripleQuote
    /\ pc \in {"idle", "parsed", "returned"} => lastIndex = NoCursor
    /\ pc = "returned" =>
         \E f \in {FreshCall(fullText, isTxtFile)} :
            /\ outputLines = f.tokens
            /\ inStates = f.inStates
            /\ inTripleQuote = f.endState
    /\ pc = "parsed" =>
         \E f \in {FreshParse(fullText, isTxtFile)} :
            /\ styled = f.tokens
            /\ lineStates = f.lineStates

\* a document with a span over two lines, tokenized by both engines after a
\* document that both engines left inside a span
C17_Witness ==
    /\ pc = "returned"
    /\ earlier = <<[batch |-> TRUE, stream |-> TRUE]>>
    /\ fullText = DocCarry
    /\ inStates = <<FALSE, TRUE>>
    /\ lineStates = <<FALSE, TRUE>>

----------------------------------------------------------------------------
(* Keywords in the two engines.                                             *)

KeywordRule == 3

\* the characters from position i on that the match of length len covers
Span(i, len) == i..i + len - 1

\* the characters of s that a match of a rule other than the keyword rule
\* covers, wherever the match starts
OtherRuleChars(s) ==
    UNION {UNION {Span(i, MatchLen(highlightingRules[r], s, i)) : i \in DOMAIN s} :
             r \in DOMAIN highlightingRules \ {KeywordRule}}

\* the places of s where a whole word is one of the words kws, in any case
KeywordStarts(kws, s) == {i \in DOMAIN s : MatchWords(kws, s, i) > 0}

\* the whole-word keywords of line k, among the words kws, that no other rule
\* and no triple quote span touches
FreeKeywords(kws, k, taken) ==
    {i \in KeywordStarts(kws, lines[k]) :
        Span(i, MatchWords(kws, lines[k], i)) \cap taken = {}}

\* the characters of the keywords at the places S of s are Keyword in the
\* batch tokens bt and dslKeyword in the stream tokens st of the line
BothKeyword(kws, s, S, bt, st) ==
    \A i \in S : \A j \in Span(i, MatchWords(kws, s, i)) :
        /\ bt[j].className = "sh-keyword"
        /\ st[j].tokenName = "dslKeyword"

KeywordsComplete(kws) ==
    (pc = "returned" /\ ~isTxtFile) =>
        \A k \in DOMAIN lines :
            BothKeyword(kws, lines[k],
                        FreeKeywords(kws, k, OtherRuleChars(lines[k]) \cup SpanChars(k)),
                        CharTokens(outputLines[k]), CharTokens(styled[k]))

\* C18: in a script file every whole-word occurrence, in any case, of one of
\* the fourteen keywords (LOAD among them) that no other rule matches and
\* that lies outside the triple quote spans is Keyword in the batch tokens
\* and in the stream tokens.
C18_KeywordCompleteness == KeywordsComplete(DSL_KEYWORDS)

\* the same for the thirteen keywords of the stream tokenizer's own list
C18_WithoutLoad == KeywordsComplete(DSL_KEYWORDS_PATTERN_STR)

\* a script with a bare LOAD has been tokenized by both engines
C18_BareLoad ==
    /\ pc = "returned" /\ ~isTxtFile
    /\ fullText = DocLoadTxt
    /\ FreeKeywords(DSL_KEYWORDS, 1, OtherRuleChars(lines[1]) \cup SpanChars(1)) = {1}

\* the position in the line of the first character of token n of toks
TokenStart(toks, n) == Len(ConcatTexts(SubSeq(toks, 1, n - 1))) + 1

\* the characters of s next to the piece of length len at position a, before
\* and after it, are not word characters
WholeWord(s, a, len) ==
    /\ CharAt(s, a - 1) \notin WordChars
    /\ CharAt(s, a + len) \notin WordChars

\* every Keyword token of the batch tokens of each line is a whole word
BatchKeywordsWhole ==
    \A k \in DOMAIN outputLines : \A n \in DOMAIN outputLines[k] :
        outputLines[k][n].className = "sh-keyword" =>
            WholeWord(lines[k], TokenStart(outputLines[k], n),
                      Len(outputLines[k][n].text))

\* every dslKeyword token of the stream tokens of each line is a whole word
StreamKeywordsWhole ==
    \A k \in DOMAIN styled : \A n \in DOMAIN styled[k] :
        styled[k][n].tokenName = "dslKeyword" =>
            WholeWord(DocLines[k], TokenStart(styled[k], n), Len(styled[k][n].text))

\* C19: a Keyword token of either engine has no word character right before
\* it and none right after it in its line; a keyword spelled inside a longer
\* word is not Keyword.
C19_WholeWord == pc = "returned" => BatchKeywordsWhole /\ StreamKeywordsWhole

\* the batch engine's part of it
C19_BatchWholeWord == pc = "returned" => BatchKeywordsWhole

\* a script whose only line is the word IFIF has been tokenized by both
\* engines, and the batch engine has no Keyword in it
C19_EmbeddedKeyword ==
    /\ pc = "returned" /\ ~isTxtFile
    /\ fullText = <<"I", "F", "I", "F">>
    /\ \A n \in DOMAIN outputLines[1] : outputLines[1][n].className # "sh-keyword"

----------------------------------------------------------------------------
(* The stream tokenizer's rules by file type.                               *)

\* the ids of the rules the stream tokenizer tries for the file type
StreamRuleIds(isTxt) == {getDslRules(isTxt)[r].id : r \in DOMAIN getDslRules(isTxt)}

\* the rest of line k from the first character of its token n on
RestAt(k, n) ==
    SubSeq(DocLines[k], TokenStart(styled[k], n), Len(DocLines[k]))

\* rest begins with the word LOAD, in any case, and no word character
\* follows it
BareLoadAt(rest) == MatchWords(TXT_SPECIFIC_COMMANDS_PATTERN_STR, rest, 1) > 0

\* token tok, cut from the start of rest, by the rules of a template file
TemplateSplit(tok, rest) ==
    /\ tok.tokenName # "dslKeyword"
    /\ tok.tokenName = "loadCommand" =>
          tok.text = SubSeq(rest, 1, Len(TXT_SPECIFIC_COMMANDS_PATTERN_STR[1]))
    /\ tok.tokenName # "tripleQuoteString" =>
          (tok.tokenName = "loadCommand" <=> BareLoadAt(rest))

\* token tok, cut from the start of rest, by the rules of a script file
ScriptSplit(tok, rest) ==
    tok.tokenName # "tripleQuoteString" =>
        /\ tok.tokenName = "loadCommand" <=> MatchLoadTagFrom(rest, 1) > 0
        /\ tok.tokenName = "loadCommand" =>
              tok.text = SubSeq(rest, 1, MatchLoadTagFrom(rest, 1))

C20_WitnessScript ==
    /\ ~isTxtFile /\ pc = "parsed"
    /\ \E k \in DOMAIN styled : \E n \in DOMAIN styled[k] :
          /\ styled[k][n].tokenName = "loadCommand"
          /\ Len(styled[k][n].text) > 4

----------------------------------------------------------------------------
(* Inserts in the two engines.                                              *)

InsertRule == 9

\* the characters of s that a match of a rule other than rule r0 of the
\* table covers, wherever the match starts
CharsOfRulesBut(r0, s) ==
    UNION {UNION {Span(i, MatchLen(highlightingRules[r], s, i)) : i \in DOMAIN s} :
             r \in DOMAIN highlightingRules \ {r0}}

\* the places of s where an insert {{NAME}} starts, NAME being made of the
\* characters S
InsertStarts(S, s) == {i \in DOMAIN s : MatchBraces(S, s, i) > 0}

\* the characters of the inserts at the places I of s are Insert in the
\* batch tokens bt and insert in the stream tokens st of the line
BothInsert(S, s, I, bt, st) ==
    \A i \in I : \A j \in Span(i, MatchBraces(S, s, i)) :
        /\ bt[j].className = "sh-insert"
        /\ st[j].tokenName = "insert"

\* the inserts with names of the characters S that no other rule and no
\* triple quote span touches are Insert in both engines
InsertsRecognized(S) ==
    pc = "returned" =>
        \A k \in DOMAIN lines :
            \E taken \in {CharsOfRulesBut(InsertRule, lines[k]) \cup SpanChars(k)} :
                BothInsert(S, lines[k],
                           {i \in InsertStarts(S, lines[k]) :
                               Span(i, MatchBraces(S, lines[k], i)) \cap taken = {}},
                           CharTokens(outputLines[k]), CharTokens(styled[k]))

\* C21: an insert {{NAME}} whose name is made of letters of either case,
\* digits and underscores, as {{SysInfo}} of the documentation, that lies
\* outside the triple quote spans and that no other rule matches, is Insert
\* in the batch tokens and in the stream tokens.
C21_InsertRecognition == InsertsRecognized(WordChars)

\* the same for the names in upper case
C21_UpperCaseInserts == InsertsRecognized(UpperWordChars)

\* {{SysInfo}} has been tokenized by both engines
C21_MixedCase == pc = "returned" /\ fullText = DocInsert

----------------------------------------------------------------------------
(* Layering of the rules in the batch engine.                               *)

\* the rules of the table that apply to the file type
Applicable(isTxt) ==
    {r \in DOMAIN highlightingRules : ~(isTxt /\ highlightingRules[r].isDslKeywordRule)}

\* for each applicable rule, the matches its exec loop finds in s
MatchesByRule(s, isTxt) == [r \in Applicable(isTxt) |-> RuleMatches(r, s)]

\* the applicable rules with a match, among the matches ms, over character j
Covering(ms, j) == {r \in DOMAIN ms : \E m \in ms[r] : j \in MatchChars(m)}

\* the token fields the match m of rule r gives a character of s
LayerOf(r, s, m) ==
    [className |-> currentTheme[highlightingRules[r].styleKey],
     isLink |-> highlightingRules[r].isLink,
     linkData |-> IF highlightingRules[r].isLink THEN Defined(PathOf(s, m))
                  ELSE Undefined]

\* the token fields of character j of s by the layering: those of the last
\* rule over it, or the default
TopLayer(ms, s, j) ==
    IF Covering(ms, j) = {}
    THEN [className |-> currentTheme["Default"], isLink |-> FALSE,
          linkData |-> Undefined]
    ELSE LET r == CHOOSE r \in Covering(ms, j) : \A q \in Covering(ms, j) : q <= r
         IN  LayerOf(r, s, CHOOSE m \in ms[r] : j \in MatchChars(m))

\* the characters of s outside the set spans have, in the tokens ct of the
\* characters, the fields the layering gives
Layered(ms, s, ct, spans) ==
    \A j \in DOMAIN s \ spans :
        \E top \in {TopLayer(ms, s, j)} :
            /\ ct[j].className = top.className
            /\ ct[j].isLink = top.isLink
            /\ ct[j].linkData = top.linkData

\* C22: in the result of a call every character outside the triple quote
\* spans has the style and the link fields of the last rule of the table,
\* among those that apply to the file type, with a match over it, and the
\* default where there is none.
C22_Layering ==
    pc = "returned" =>
        \A k \in DOMAIN lines :
            Layered(MatchesByRule(lines[k], isTxtFile), lines[k],
                    CharTokens(outputLines[k]), SpanChars(k))

\* a character outside the spans with matches of two rules over it, on a
\* line that also has a span
C22_Witness ==
    /\ pc = "returned"
    /\ \E k \in DOMAIN lines :
          /\ SpanChars(k) # {}
          /\ \E j \in DOMAIN lines[k] \ SpanChars(k) :
                \E r1, r2 \in Covering(MatchesByRule(lines[k], isTxtFile), j) : r1 # r2

----------------------------------------------------------------------------
(* The carried state of the batch engine.                                   *)

\* the number of markers in s from position i on, read from left to right,
\* the reading going on after each marker met
RECURSIVE CountMarkers(_, _)
CountMarkers(s, i) ==
    IF i + Len(TRIPLE_QUOTE_MARKER) - 1 > Len(s) THEN 0
    ELSE IF LitAt(s, i, TRIPLE_QUOTE_MARKER)
    THEN 1 + CountMarkers(s, i + Len(TRIPLE_QUOTE_MARKER))
    ELSE CountMarkers(s, i + 1)

\* the state in flipped n times
Flipped(in, n) == IF n % 2 = 1 THEN ~in ELSE in

\* C23: every line a call has done was left with the state it was entered
\* with, flipped once for each marker of the line read from left to right
\* without overlap; nothing else of the line bears on the state.
C23_StateToggle ==
    \A k \in DOMAIN outputLines :
        OutState(k) = Flipped(inStates[k], CountMarkers(lines[k], 1))

\* a call has done a line entered outside a span and a line entered inside
\* one, each with one marker among other text
C23_Witness ==
    /\ pc = "returned"
    /\ \E k \in DOMAIN lines :
          inStates[k] /\ CountMarkers(lines[k], 1) = 1 /\ Len(lines[k]) > 3
    /\ \E k \in DOMAIN lines :
          ~inStates[k] /\ CountMarkers(lines[k], 1) = 1 /\ Len(lines[k]) > 3

\* a call has done a line with two markers
C23_WitnessTwo ==
    /\ pc = "returned"
    /\ \E k \in DOMAIN lines : CountMarkers(lines[k], 1) = 2 /\ ~OutState(k)

\* C24: a call starts at the first line with inTripleQuote false; the value
\* the triple quote pass of a line leaves is the value the pass of the next
\* line reads, no step between the two writing it; and the token lists are
\* pushed one per line, in the order of the lines.
C24_StateChain ==
    [][/\ pc' = "rules" /\ pc # "consolidate" => lineNo' = 1 /\ ~inTripleQuote'
       /\ pc = "rules" => inTripleQuote' = inTripleQuote /\ lineNo' = lineNo
       /\ pc = "triple" => lineNo' = lineNo
       /\ pc = "consolidate" =>
             /\ inTripleQuote' = inTripleQuote
             /\ Len(outputLines') = lineNo
             /\ SubSeq(outputLines', 1, lineNo - 1) = outputLines
             /\ ConcatTexts(outputLines'[lineNo]) = SplitLines(fullText)[lineNo]
             /\ pc' = "rules" => lineNo' = lineNo + 1
             /\ pc' = "returned" => lineNo = Len(SplitLines(fullText))]_vars

\* the triple quote pass of the second line is about to read the state the
\* first line left, which is inside a span
C24_Witness ==
    /\ pc = "triple" /\ lineNo = 2
    /\ inTripleQuote
    /\ Len(outputLines) = 1
    /\ CountMarkers(lines[1], 1) = 1

----------------------------------------------------------------------------
(* The token runs of the batch engine.                                      *)

\* tokens a and b have the same style, isLink and linkData
SameTriple(a, b) ==
    /\ a.className = b.className
    /\ a.isLink = b.isLink
    /\ a.linkData = b.linkData

\* C25: in every line of tokens pushed, two tokens next to each other differ
\* in style, isLink or linkData.
C25_MinimalRun ==
    \A k \in DOMAIN outputLines :
        \A n \in 1..Len(outputLines[k]) - 1 :
            ~SameTriple(outputLines[k][n], outputLines[k][n + 1])

\* a line of at least three tokens with a token of several characters
\* between two others, and two links next to each other
C25_Witness ==
    /\ pc = "returned"
    /\ \E k \in DOMAIN outputLines :
          /\ Len(outputLines[k]) >= 3
          /\ Len(outputLines[k][1].text) = 1
          /\ Len(outputLines[k][2].text) > 1
          /\ \E n \in 1..Len(outputLines[k]) - 1 :
                /\ outputLines[k][n].className = outputLines[k][n + 1].className
                /\ outputLines[k][n].isLink

----------------------------------------------------------------------------
(* Progress and state of the stream tokenizer.                              *)

\* the tokens of the line the stream is on
LineTokens == styled[Len(styled)]

\* C26: every call of token on a stream before the end of its line moves the
\* cursor forward by one character at least and not beyond the end of the
\* line, the line staying as it is, so the characters left to read get fewer
\* with each call; and at every moment the pieces read so far from the line,
\* put together in order, are the line up to the cursor, the whole line once
\* the parse is done with it.
C26_Progress ==
    /\ [][pc = "token" =>
            /\ stream'.string = stream.string
            /\ stream'.pos >= stream.pos + 1
            /\ stream'.pos <= Len(stream.string)
            /\ pc' # "token" => stream'.pos = Len(stream.string)]_vars
    /\ [](/\ pc = "token" =>
                /\ stream.pos < Len(stream.string)
                /\ ConcatTexts(LineTokens) = SubSeq(stream.string, 1, stream.pos)
          /\ pc = "parsed" =>
                \A k \in DOMAIN styled : ConcatTexts(styled[k]) = DocLines[k])

\* a parse is done that entered a line inside a span, read a closing marker
\* from it and went on with the rules and the fallback
C26_Witness ==
    /\ pc = "parsed"
    /\ \E k \in DOMAIN styled :
          /\ lineStates[k]
          /\ Len(styled[k]) >= 3
          /\ styled[k][1].tokenName = "tripleQuoteString"
          /\ \E n \in DOMAIN styled[k] : styled[k][n].tokenName \in {Null, "defaultText"}

\* the text read by the call ends with the marker
ReadMarkerLast ==
    /\ stream'.pos >= stream.pos + Len(TRIPLE_QUOTE_MARKER)
    /\ LitAt(stream.string, stream'.pos - Len(TRIPLE_QUOTE_MARKER) + 1,
             TRIPLE_QUOTE_MARKER)

\* C27: a call of token takes state.inTripleQuote from true to false only
\* when its scan inside the span ended on a marker before the end of the
\* scan, and from false to true only when it read the marker at the cursor
\* and nothing else; a call that read a rule's match or one character, and a
\* call inside a span that read to the end of the line without ending on a
\* marker, leave it as it was, and so does the change to the next line.
C27_StateFrame ==
    [][/\ pc = "token" =>
            /\ (state.inTripleQuote /\ ~state'.inTripleQuote) => ReadMarkerLast
            /\ (~state.inTripleQuote /\ state'.inTripleQuote) =>
                  /\ MarkerAtCursor
                  /\ stream'.pos = stream.pos + Len(TRIPLE_QUOTE_MARKER)
            /\ (~state.inTripleQuote /\ ~MarkerAtCursor) => state' = state
            /\ (state.inTripleQuote /\ ~ReadMarkerLast) => state' = state
            /\ DOMAIN state' = {"inTripleQuote"}
       /\ pc = "line" => state' = state]_vars

\* a parse is done in which a line with text was entered inside a span and
\* left inside it, and a later line closed the span
C27_Witness ==
    /\ pc = "parsed"
    /\ \E k \in DOMAIN styled :
          /\ lineStates[k] /\ styled[k] # <<>> /\ StreamOutState(k)
          /\ \E k2 \in k + 1..Len(styled) :
                lineStates[k2] /\ ~StreamOutState(k2) /\ Len(styled[k2]) > 1

----------------------------------------------------------------------------
(* Agreement of the two engines on the carried state.                       *)

\* the characters of the line that the tokens ct of its characters give the
\* triple quote style, by the field f and its value v
TripleChars(ct, f, v) == {j \in DOMAIN ct : ct[j][f] = v}

\* C28: a line that the two engines entered with the same state is left by
\* both with the same state, and the same characters of it are
\* TripleQuoteString in the batch tokens and in the stream tokens.
C28_EnginesAgree ==
    pc = "returned" =>
        \A k \in DOMAIN lines :
            inStates[k] = lineStates[k] =>
                /\ OutState(k) = StreamOutState(k)
                /\ TripleChars(CharTokens(outputLines[k]), "className", TripleClass)
                      = TripleChars(CharTokens(styled[k]), "tokenName",
                                    "tripleQuoteString")

\* the line //""" entered outside a span: the batch engine leaves it inside
\* a span, the stream engine outside
C28_MarkerInComment ==
    /\ pc = "returned"
    /\ lines[1] = <<"/", "/", "\"", "\"", "\"">>
    /\ OutState(1) /\ ~StreamOutState(1)

\* the line \"""x entered inside a span: the batch engine leaves it outside
\* a span, the stream engine inside
C28_EscapedMarker ==
    /\ pc = "returned" /\ fullText = DocEscaped
    /\ inStates[2] /\ lineStates[2]
    /\ ~OutState(2) /\ StreamOutState(2)

----------------------------------------------------------------------------
(* Comments in the batch engine.                                            *)

\* the position of the first // of s, 0 when there is none
CommentStart(s) == FirstOf({i \in DOMAIN s : LitAt(s, i, <<"/", "/">>)})

\* line k was entered outside a span, has no quote character and has a //
PlainCommentLine(k) ==
    /\ ~inStates[k]
    /\ \A j \in DOMAIN lines[k] : lines[k][j] \notin QuoteChars
    /\ CommentStart(lines[k]) > 0

\* C29: in the result of a call, on a line entered outside a span that has
\* no quote character, every character from the first // to the end of the
\* line is Comment.
C29_CommentExtent ==
    pc = "returned" =>
        \A k \in DOMAIN lines :
            PlainCommentLine(k) =>
                \A j \in CommentStart(lines[k])..Len(lines[k]) :
                    CharTokens(outputLines[k])[j].className = "sh-comment"

\* the same for the two characters // themselves
C29_CommentMarkOnly ==
    pc = "returned" =>
        \A k \in DOMAIN lines :
            PlainCommentLine(k) =>
                \A j \in CommentStart(lines[k])..CommentStart(lines[k]) + 1 :
                    CharTokens(outputLines[k])[j].className = "sh-comment"

\* the script line //IF has been tokenized: IF is Keyword
C29_KeywordInComment ==
    /\ pc = "returned" /\ ~isTxtFile
    /\ fullText = <<"/", "/", "I", "F">>
    /\ outputLines[1][2].className = "sh-keyword"

----------------------------------------------------------------------------
(* Link tokens of the batch engine.                                         *)

\* the token is one whole placeholder [<path>] and its linkData is the path
OneWholeLink(tok) ==
    /\ MatchPlaceholderLink(tok.text, 1) = Len(tok.text)
    /\ tok.linkData = Defined(SubSeq(tok.text, 3, Len(tok.text) - 2))

\* C30: in the result of a call every token with isLink true has one whole
\* placeholder [<path>] for its text and the path for its linkData.
C30_LinkShape ==
    pc = "returned" =>
        \A k \in DOMAIN outputLines : \A n \in DOMAIN outputLines[k] :
            IsLinkToken(outputLines[k][n]) => OneWholeLink(outputLines[k][n])

\* the same for the lines on which no placeholder follows another at once
\* and no later rule has a match inside one
C30_LinksApart ==
    pc = "returned" =>
        \A k \in DOMAIN outputLines :
            (\A m1, m2 \in RuleMatches(LinkRule, lines[k]) :
                  /\ m2.index # m1.index + m1.length
                  /\ MatchChars(m1) \cap CoveredAfter(LinkRule, lines[k], isTxtFile)
                        \in {{}, MatchChars(m1)})
            => \A n \in DOMAIN outputLines[k] :
                  IsLinkToken(outputLines[k][n]) => OneWholeLink(outputLines[k][n])

\* [<a.txt>][<a.txt>] has come out as one link token
C30_Merged ==
    /\ pc = "returned"
    /\ \E k \in DOMAIN outputLines : \E n \in DOMAIN outputLines[k] :
          /\ IsLinkToken(outputLines[k][n])
          /\ outputLines[k][n].text =
                <<"[","<","a",".","t","x","t",">","]","[","<","a",".","t","x","t",">","]">>

\* [<{{A}}.txt>] has come out as a link token [<, an Insert token and a
\* link token .txt>]
C30_Split ==
    /\ pc = "returned" /\ fullText = DocInsertLink
    /\ Len(outputLines[1]) = 3
    /\ IsLinkToken(outputLines[1][1]) /\ outputLines[1][1].text = <<"[", "<">>
    /\ outputLines[1][2].className = "sh-insert"
    /\ IsLinkToken(outputLines[1][3])

============================================================================
